---- MODULE Spec2Model ----
(***************************************************************************)
(* The upload / extraction / normalisation pipeline of the CV rank         *)
(* generator server: the multer upload middleware, the handlers of         *)
(* POST /api/rank-cvs and POST /api/generate-cvs, and the clean-and-parse  *)
(* treatment of the language model's answer.                               *)
(*                                                                         *)
(* A behaviour follows one request from its submission to its answer,      *)
(* against an upload directory that starts empty.  JavaScript strings are  *)
(* finite sequences of character codes, so that the regular expression of  *)
(* the cleaning step, parseInt and JSON.parse are computed on characters.  *)
(*                                                                         *)
(* Spec follows a request of either route; SpecBulk follows a rank-cvs     *)
(* request with up to MaxBulk files in the cvs field; SpecExtract follows  *)
(* one call of extractTextFromFile taken by itself.                        *)
(* SpecPdf follows one call of POST /api/download-pdf.                     *)
(*                                                                         *)
(* The client is modelled beside the server: SpecRanking follows the       *)
(* ranking form together with the path from the generation form to an      *)
(* auto-rank, SpecGeneration the generation form, SpecRender one render of *)
(* the ranking results.                                                    *)
(***************************************************************************)
EXTENDS Integers, Sequences, FiniteSets, TLC

----------------------------------------------------------------------------
(* Bounds of the model. *)

\* Largest number of files in the cvs field of one submission.
MaxCvs == 2

\* Largest value of the millisecond clock Date.now().
MaxClock == 1


\* Largest length of the numberOfCVs form field.
MaxNumLen == 2

\* The largest number of cvs files in a bulk submission: one more than the
\* upload middleware accepts.
MaxBulk == 11

\* The largest number of requests the client sends in one behaviour.
MaxRequests == 3

\* The largest number of CVs in an answer of /api/generate-cvs.
MaxGenerated == 1

\* The longest rankings list that is rendered.
MaxResults == 3

----------------------------------------------------------------------------
(* Strings of the program, as character codes. *)

\* 'rankings'
K_rankings ==
  <<114, 97, 110, 107, 105, 110, 103, 115>>

\* 'cvs'
K_cvs ==
  <<99, 118, 115>>

\* 'filename'
K_filename ==
  <<102, 105, 108, 101, 110, 97, 109, 101>>

\* 'candidateName'
K_candidateName ==
  <<99, 97, 110, 100, 105, 100, 97, 116, 101, 78, 97, 109, 101>>

\* 'phone'
K_phone ==
  <<112, 104, 111, 110, 101>>

\* 'email'
K_email ==
  <<101, 109, 97, 105, 108>>

\* 'score'
K_score ==
  <<115, 99, 111, 114, 101>>

\* 'explanation'
K_explanation ==
  <<101, 120, 112, 108, 97, 110, 97, 116, 105, 111, 110>>

\* 'advantages'
K_advantages ==
  <<97, 100, 118, 97, 110, 116, 97, 103, 101, 115>>

\* 'disadvantages'
K_disadvantages ==
  <<100, 105, 115, 97, 100, 118, 97, 110, 116, 97, 103, 101, 115>>

\* 'title'
K_title ==
  <<116, 105, 116, 108, 101>>

\* 'content'
K_content ==
  <<99, 111, 110, 116, 101, 110, 116>>

\* 'Error parsing AI response'
FallbackFilename ==
  <<69, 114, 114, 111, 114, 32, 112, 97, 114, 115, 105, 110, 103, 32, 65, 73,
    32, 114, 101, 115, 112, 111, 110, 115, 101>>

\* 'There was an error parsing the AI response. Please try again.'
FallbackExplanation ==
  <<84, 104, 101, 114, 101, 32, 119, 97, 115, 32, 97, 110, 32, 101, 114, 114,
    111, 114, 32, 112, 97, 114, 115, 105, 110, 103, 32, 116, 104, 101, 32, 65,
    73, 32, 114, 101, 115, 112, 111, 110, 115, 101, 46, 32, 80, 108, 101, 97,
    115, 101, 32, 116, 114, 121, 32, 97, 103, 97, 105, 110, 46>>

\* 'Generated CV'
FallbackTitle ==
  <<71, 101, 110, 101, 114, 97, 116, 101, 100, 32, 67, 86>>

\* "a" and "b": the original names of uploaded files.
OriginalNames == {<<97>>, <<98>>}

\* "JD": a job description typed into the form.
JobText == <<74, 68>>

\* "AD": free text typed into the additional-data field.
AdditionalText == <<65, 68>>

----------------------------------------------------------------------------
(* Texts the language model may answer with. *)

\* '{"rankings":[{"filename":"b","candidateName":"K","phone":"5","email":"e","score":85,"explanation":"x","advantages":["y"],"disadvantages":[]},{"filename":"a","candidateName":"J","phone":"5","email":"e","score":85,"explanation":"x","advantages":["y"],"disadvantages":[]}]}'
OutRankAB ==
  <<123, 34, 114, 97, 110, 107, 105, 110, 103, 115, 34, 58, 91, 123, 34, 102,
    105, 108, 101, 110, 97, 109, 101, 34, 58, 34, 98, 34, 44, 34, 99, 97, 110,
    100, 105, 100, 97, 116, 101, 78, 97, 109, 101, 34, 58, 34, 75, 34, 44, 34,
    112, 104, 111, 110, 101, 34, 58, 34, 53, 34, 44, 34, 101, 109, 97, 105, 108,
    34, 58, 34, 101, 34, 44, 34, 115, 99, 111, 114, 101, 34, 58, 56, 53, 44, 34,
    101, 120, 112, 108, 97, 110, 97, 116, 105, 111, 110, 34, 58, 34, 120, 34,
    44, 34, 97, 100, 118, 97, 110, 116, 97, 103, 101, 115, 34, 58, 91, 34, 121,
    34, 93, 44, 34, 100, 105, 115, 97, 100, 118, 97, 110, 116, 97, 103, 101,
    115, 34, 58, 91, 93, 125, 44, 123, 34, 102, 105, 108, 101, 110, 97, 109,
    101, 34, 58, 34, 97, 34, 44, 34, 99, 97, 110, 100, 105, 100, 97, 116, 101,
    78, 97, 109, 101, 34, 58, 34, 74, 34, 44, 34, 112, 104, 111, 110, 101, 34,
    58, 34, 53, 34, 44, 34, 101, 109, 97, 105, 108, 34, 58, 34, 101, 34, 44, 34,
    115, 99, 111, 114, 101, 34, 58, 56, 53, 44, 34, 101, 120, 112, 108, 97, 110,
    97, 116, 105, 111, 110, 34, 58, 34, 120, 34, 44, 34, 97, 100, 118, 97, 110,
    116, 97, 103, 101, 115, 34, 58, 91, 34, 121, 34, 93, 44, 34, 100, 105, 115,
    97, 100, 118, 97, 110, 116, 97, 103, 101, 115, 34, 58, 91, 93, 125, 93, 125>>

\* '{"rankings":[{"filename":"a","candidateName":"J","phone":"5","email":"e","score":85,"explanation":"x","advantages":["y"],"disadvantages":[]}]}'
OutRankA ==
  <<123, 34, 114, 97, 110, 107, 105, 110, 103, 115, 34, 58, 91, 123, 34, 102,
    105, 108, 101, 110, 97, 109, 101, 34, 58, 34, 97, 34, 44, 34, 99, 97, 110,
    100, 105, 100, 97, 116, 101, 78, 97, 109, 101, 34, 58, 34, 74, 34, 44, 34,
    112, 104, 111, 110, 101, 34, 58, 34, 53, 34, 44, 34, 101, 109, 97, 105, 108,
    34, 58, 34, 101, 34, 44, 34, 115, 99, 111, 114, 101, 34, 58, 56, 53, 44, 34,
    101, 120, 112, 108, 97, 110, 97, 116, 105, 111, 110, 34, 58, 34, 120, 34,
    44, 34, 97, 100, 118, 97, 110, 116, 97, 103, 101, 115, 34, 58, 91, 34, 121,
    34, 93, 44, 34, 100, 105, 115, 97, 100, 118, 97, 110, 116, 97, 103, 101,
    115, 34, 58, 91, 93, 125, 93, 125>>

\* '\x00{\n\t"rankings": [{"filename":"a","candidateName":"J","phone":"5","email":"e",\r\n"score":85,"explanation":"x\x7f\x0b","advantages":["y"],"disadvantages":[]}]\x1f}\n'
OutControlRankA ==
  <<0, 123, 10, 9, 34, 114, 97, 110, 107, 105, 110, 103, 115, 34, 58, 32, 91,
    123, 34, 102, 105, 108, 101, 110, 97, 109, 101, 34, 58, 34, 97, 34, 44, 34,
    99, 97, 110, 100, 105, 100, 97, 116, 101, 78, 97, 109, 101, 34, 58, 34, 74,
    34, 44, 34, 112, 104, 111, 110, 101, 34, 58, 34, 53, 34, 44, 34, 101, 109,
    97, 105, 108, 34, 58, 34, 101, 34, 44, 13, 10, 34, 115, 99, 111, 114, 101,
    34, 58, 56, 53, 44, 34, 101, 120, 112, 108, 97, 110, 97, 116, 105, 111, 110,
    34, 58, 34, 120, 127, 11, 34, 44, 34, 97, 100, 118, 97, 110, 116, 97, 103,
    101, 115, 34, 58, 91, 34, 121, 34, 93, 44, 34, 100, 105, 115, 97, 100, 118,
    97, 110, 116, 97, 103, 101, 115, 34, 58, 91, 93, 125, 93, 31, 125, 10>>

\* '{"rankings":[{"filename":"a"'
OutTruncated ==
  <<123, 34, 114, 97, 110, 107, 105, 110, 103, 115, 34, 58, 91, 123, 34, 102,
    105, 108, 101, 110, 97, 109, 101, 34, 58, 34, 97, 34>>

\* ''
OutEmpty ==
  <<>>

\* '7'
OutNumber ==
  <<55>>

\* '{"cvs":[{"title":"T","content":"C"}]}'
OutCvs1 ==
  <<123, 34, 99, 118, 115, 34, 58, 91, 123, 34, 116, 105, 116, 108, 101, 34, 58,
    34, 84, 34, 44, 34, 99, 111, 110, 116, 101, 110, 116, 34, 58, 34, 67, 34,
    125, 93, 125>>

\* '{"cvs":[{"title":"T","content":"C"},{"title":"","content":"D"}]}'
OutCvsBlank ==
  <<123, 34, 99, 118, 115, 34, 58, 91, 123, 34, 116, 105, 116, 108, 101, 34, 58,
    34, 84, 34, 44, 34, 99, 111, 110, 116, 101, 110, 116, 34, 58, 34, 67, 34,
    125, 44, 123, 34, 116, 105, 116, 108, 101, 34, 58, 34, 34, 44, 34, 99, 111,
    110, 116, 101, 110, 116, 34, 58, 34, 68, 34, 125, 93, 125>>

\* '{"cvs":\n[{"title":"T",\x7f"content":"C\\nD"}]}\x00'
OutControlCvs1 ==
  <<123, 34, 99, 118, 115, 34, 58, 10, 91, 123, 34, 116, 105, 116, 108, 101, 34,
    58, 34, 84, 34, 44, 127, 34, 99, 111, 110, 116, 101, 110, 116, 34, 58, 34,
    67, 92, 110, 68, 34, 125, 93, 125, 0>>

\* 'CV\n1:\x7f J'
OutControlProse ==
  <<67, 86, 10, 49, 58, 127, 32, 74>>

ModelTexts ==
  {OutRankAB, OutRankA, OutControlRankA, OutTruncated, OutEmpty, OutNumber,
   OutCvs1, OutCvsBlank, OutControlCvs1, OutControlProse}

----------------------------------------------------------------------------
(* Character classes and decimal numerals. *)

\* The character class [\x00-\x1F\x7F] of the cleaning step.
IsControl(c) == c \in 0..31 \/ c = 127

\* A cleaning step whose character class is [\x00-\x1F]: it keeps 0x7F.
CleanKeepingDel(s) == SelectSeq(s, LAMBDA c : c \notin 0..31)

\* response.replace(/[\x00-\x1F\x7F]/g, '')
Clean(s) == SelectSeq(s, LAMBDA c : ~IsControl(c))

\* Tab, line feed, carriage return and space.
IsWs(c) == c \in {9, 10, 13, 32}

IsDigit(c) == c \in 48..57

RECURSIVE SkipWs(_, _)
\* The first position from i on that holds no white space.
SkipWs(s, i) == IF i <= Len(s) /\ IsWs(s[i]) THEN SkipWs(s, i + 1) ELSE i

RECURSIVE DigitsEnd(_, _)
\* The first position from i on that holds no decimal digit.
DigitsEnd(s, i) == IF i <= Len(s) /\ IsDigit(s[i]) THEN DigitsEnd(s, i + 1) ELSE i

RECURSIVE DecimalValue(_, _, _)
\* The number written by the digits s[from..to].
DecimalValue(s, from, to) ==
  IF to < from THEN 0 ELSE 10 * DecimalValue(s, from, to - 1) + (s[to] - 48)

NaN == [nan |-> TRUE, val |-> 0]

\* parseInt(s) in radix 10: leading white space, an optional sign, then the
\* longest run of digits; NaN when there is no digit.  What follows the
\* digits is ignored.
ParseInt(s) ==
  LET i == SkipWs(s, 1)
      j == IF i <= Len(s) /\ s[i] \in {43, 45} THEN i + 1 ELSE i
      e == DigitsEnd(s, j)
      n == DecimalValue(s, j, e - 1)
  IN  IF e = j THEN NaN
      ELSE [nan |-> FALSE,
            val |-> IF i <= Len(s) /\ s[i] = 45 THEN 0 - n ELSE n]

----------------------------------------------------------------------------
(* JSON values and JSON.parse.  A value is tagged with its type; an object  *)
(* is a function from its keys to its values (a repeated key keeps the last *)
(* value, as JSON.parse does).  Numbers of the modelled texts are integers *)
(* and \u escapes do not occur in them: a fraction, an exponent or a \u    *)
(* escape is outside the parsed subset.                                    *)

JNull == [t |-> "null"]
JBool(b) == [t |-> "bool", b |-> b]
JNum(n) == [t |-> "num", n |-> n]
JStr(s) == [t |-> "str", s |-> s]
JArr(a) == [t |-> "arr", a |-> a]
JObj(o) == [t |-> "obj", o |-> o]

PFail == [ok |-> FALSE, val |-> JNull, pos |-> 0]
POk(v, p) == [ok |-> TRUE, val |-> v, pos |-> p]

\* The character an escape \c stands for, -1 when \c is no escape.
Unescape(c) ==
  CASE c = 34 -> 34 [] c = 92 -> 92 [] c = 47 -> 47 [] c = 98 -> 8
    [] c = 102 -> 12 [] c = 110 -> 10 [] c = 114 -> 13 [] c = 116 -> 9
    [] OTHER -> -1

RECURSIVE ScanString(_, _, _)
\* The string literal whose opening quote precedes position i.  A raw
\* control character inside a literal is a syntax error.
ScanString(s, i, acc) ==
  IF i > Len(s) THEN PFail
  ELSE IF s[i] = 34 THEN POk(JStr(acc), i + 1)
  ELSE IF s[i] < 32 THEN PFail
  ELSE IF s[i] = 92
    THEN IF i + 1 > Len(s) \/ Unescape(s[i + 1]) < 0 THEN PFail
         ELSE ScanString(s, i + 2, Append(acc, Unescape(s[i + 1])))
    ELSE ScanString(s, i + 1, Append(acc, s[i]))

\* A number literal at position i: -? (0 | [1-9][0-9]*).
ParseNumber(s, i) ==
  LET j == IF s[i] = 45 THEN i + 1 ELSE i
      e == DigitsEnd(s, j)
      n == DecimalValue(s, j, e - 1)
  IN  IF e = j THEN PFail
      ELSE IF s[j] = 48 THEN POk(JNum(0), j + 1)
      ELSE POk(JNum(IF s[i] = 45 THEN 0 - n ELSE n), e)

MatchAt(s, i, lit) ==
  i + Len(lit) - 1 <= Len(s) /\ SubSeq(s, i, i + Len(lit) - 1) = lit

RECURSIVE ParseValue(_, _)
RECURSIVE ParseElements(_, _, _)
RECURSIVE ParseMembers(_, _, _)

\* The JSON value that starts at the first non-blank position from i on.
ParseValue(s, i) ==
  LET j == SkipWs(s, i) IN
  IF j > Len(s) THEN PFail
  ELSE IF s[j] = 123
    THEN LET k == SkipWs(s, j + 1) IN
         IF k <= Len(s) /\ s[k] = 125 THEN POk(JObj(<<>>), k + 1)
         ELSE ParseMembers(s, k, <<>>)
  ELSE IF s[j] = 91
    THEN LET k == SkipWs(s, j + 1) IN
         IF k <= Len(s) /\ s[k] = 93 THEN POk(JArr(<<>>), k + 1)
         ELSE ParseElements(s, k, <<>>)
  ELSE IF s[j] = 34 THEN ScanString(s, j + 1, <<>>)
  ELSE IF s[j] = 45 \/ IsDigit(s[j]) THEN ParseNumber(s, j)
  ELSE IF MatchAt(s, j, <<116, 114, 117, 101>>) THEN POk(JBool(TRUE), j + 4)
  ELSE IF MatchAt(s, j, <<102, 97, 108, 115, 101>>) THEN POk(JBool(FALSE), j + 5)
  ELSE IF MatchAt(s, j, <<110, 117, 108, 108>>) THEN POk(JNull, j + 4)
  ELSE PFail

\* The elements of an array from position i on, up to the closing bracket.
ParseElements(s, i, acc) ==
  LET v == ParseValue(s, i) IN
  IF ~v.ok THEN PFail
  ELSE LET k == SkipWs(s, v.pos) IN
       IF k > Len(s) THEN PFail
       ELSE IF s[k] = 44 THEN ParseElements(s, k + 1, Append(acc, v.val))
       ELSE IF s[k] = 93 THEN POk(JArr(Append(acc, v.val)), k + 1)
       ELSE PFail

\* The members of an object from position i on, up to the closing brace.
ParseMembers(s, i, acc) ==
  LET j == SkipWs(s, i) IN
  IF j > Len(s) \/ s[j] # 34 THEN PFail
  ELSE LET key == ScanString(s, j + 1, <<>>) IN
       IF ~key.ok THEN PFail
       ELSE LET c == SkipWs(s, key.pos) IN
            IF c > Len(s) \/ s[c] # 58 THEN PFail
            ELSE LET v == ParseValue(s, c + 1) IN
                 IF ~v.ok THEN PFail
                 ELSE LET k == SkipWs(s, v.pos)
                          obj == (key.val.s :> v.val) @@ acc
                      IN  IF k > Len(s) THEN PFail
                          ELSE IF s[k] = 44 THEN ParseMembers(s, k + 1, obj)
                          ELSE IF s[k] = 125 THEN POk(JObj(obj), k + 1)
                          ELSE PFail

\* JSON.parse(s): ok is FALSE where JSON.parse throws a SyntaxError.
JSONParse(s) ==
  LET v == ParseValue(s, 1) IN
  IF v.ok /\ SkipWs(s, v.pos) = Len(s) + 1
    THEN [ok |-> TRUE, val |-> v.val]
    ELSE [ok |-> FALSE, val |-> JNull]

----------------------------------------------------------------------------
(* Uploaded files and the upload directory. *)

Pdf == "application/pdf"
Doc == "application/msword"
Docx == "application/vnd.openxmlformats-officedocument.wordprocessingml.document"
Txt == "text/plain"
Zip == "application/zip"

\* The media types a client may declare for a file part.
MediaTypes == {Pdf, Doc, Docx, Txt, Zip}

\* A file part of a multipart submission: its original name, its declared
\* media type, and whether its bytes are a well-formed document of that
\* type.  Only the types read by a parsing library can be malformed.
Files ==
  {f \in [originalname : OriginalNames, mimetype : MediaTypes,
          wellFormed : BOOLEAN] :
     ~f.wellFormed => f.mimetype \in {Pdf, Docx}}

\* The text a document holds: its name, "/" and a letter for its type.
TextOf(f) ==
  f.originalname \o <<47>> \o
  (CASE f.mimetype = Pdf -> <<112>> [] f.mimetype = Doc -> <<100>>
     [] f.mimetype = Docx -> <<120>> [] f.mimetype = Txt -> <<116>>
     [] OTHER -> <<122>>)

\* allowedTypes of the upload filter.
AllowedTypes == {Pdf, Doc, Docx, Txt}

\* A filter that accepts every declared media type.
fileFilterAcceptingAll(file) == TRUE

\* fileFilter: TRUE where the callback is given (null, true), FALSE where it
\* is given the 'Invalid file type' error.
fileFilter(file) == file.mimetype \in AllowedTypes

\* diskStorage.filename: Date.now() + '-' + file.originalname under uploads/.
filename(time, file) == <<time, file.originalname>>

\* maxCount of each field of upload.fields / upload.single.
MaxCvsCount == 10
MaxJobDescriptionCount == 1
MaxBaseDataCount == 1

maxCount(field) ==
  CASE field = "cvs" -> MaxCvsCount
    [] field = "jobDescription" -> MaxJobDescriptionCount
    [] field = "baseData" -> MaxBaseDataCount
    [] OTHER -> 0

\* The fields a route's upload middleware declares.
fields(route) ==
  IF route = "rank" THEN {"cvs", "jobDescription"} ELSE {"baseData"}

\* The number of parts of a field among the first i parts.
CountField(parts, i, field) ==
  Cardinality({j \in 1..i : parts[j].field = field})

\* A wrapped file filter that does not count the files of a field.
PartAcceptedIgnoringCount(route, parts, i) ==
  /\ parts[i].field \in fields(route)
  /\ fileFilter(parts[i].file)

\* multer's wrapped file filter on the i-th part: the part is refused when
\* its field is not declared, when the field already got maxCount files, or
\* when fileFilter refuses it.
PartAccepted(route, parts, i) ==
  /\ parts[i].field \in fields(route)
  /\ CountField(parts, i, parts[i].field) <= maxCount(parts[i].field)
  /\ fileFilter(parts[i].file)

\* The index of the first refused part, 0 when every part is accepted.
FirstRefused(route, parts) ==
  LET bad == {i \in 1..Len(parts) : ~PartAccepted(route, parts, i)}
  IN  IF bad = {} THEN 0 ELSE CHOOSE i \in bad : \A j \in bad : i <= j

\* The file object multer hands to the handler for an accepted part.
StoredFile(part, time) ==
  [fieldname |-> part.field, originalname |-> part.file.originalname,
   mimetype |-> part.file.mimetype, path |-> filename(time, part.file)]

RECURSIVE WriteAll(_, _, _, _)
\* The disk after parts 1..n were written, part i at times[i]; a later file
\* with the path of an earlier one overwrites it.
WriteAll(d, parts, times, n) ==
  IF n = 0 THEN d
  ELSE (filename(times[n], parts[n].file) :> parts[n].file) @@
       WriteAll(d, parts, times, n - 1)

\* The disk without the given paths.
Without(d, paths) == [p \in DOMAIN d \ paths |-> d[p]]

RECURSIVE Readings(_, _)
\* The n readings of Date.now() taken one after the other from time t on:
\* the clock does not go back, and it may stand still between two readings.
Readings(t, n) ==
  IF n = 0 THEN {<<>>}
  ELSE UNION {{<<u>> \o s : s \in Readings(u, n - 1)} : u \in t..MaxClock}

----------------------------------------------------------------------------
(* Text extraction. *)

Threw(message) == [ok |-> FALSE, text |-> <<>>, message |-> message]
Returned(text) == [ok |-> TRUE, text |-> text, message |-> ""]

\* pdfParse / mammoth.extractRawText: the text of a well-formed document of
\* the library's format, an error for any other bytes.
LibraryParse(blob, format) ==
  IF blob.mimetype = format /\ blob.wellFormed THEN Returned(TextOf(blob))
  ELSE Threw("parse error")

\* An extraction that gives the empty text for a media type it has no branch
\* for.
extractTextFromFileReturningEmpty(d, filePath, mimetype) ==
  IF mimetype \notin {Pdf, Docx, Txt} THEN Returned(<<>>)
  ELSE IF filePath \notin DOMAIN d THEN Threw("ENOENT")
  ELSE IF mimetype = Txt THEN Returned(TextOf(d[filePath]))
  ELSE LibraryParse(d[filePath], mimetype)

\* extractTextFromFile(filePath, mimetype) on disk d.
extractTextFromFile(d, filePath, mimetype) ==
  IF mimetype = Pdf
    THEN IF filePath \in DOMAIN d THEN LibraryParse(d[filePath], Pdf)
         ELSE Threw("ENOENT")
  ELSE IF mimetype = Docx
    THEN IF filePath \in DOMAIN d THEN LibraryParse(d[filePath], Docx)
         ELSE Threw("ENOENT")
  ELSE IF mimetype = Txt
    THEN IF filePath \in DOMAIN d THEN Returned(TextOf(d[filePath]))
         ELSE Threw("ENOENT")
  ELSE Threw("Unsupported file type")

\* A search that looks at the first file only: a throw of a later file goes
\* unnoticed.
FirstThrowOfFirstFile(d, files) ==
  IF files # <<>> /\ ~extractTextFromFile(d, files[1].path, files[1].mimetype).ok
    THEN 1 ELSE 0

\* The index of the first file of the list whose extraction throws, 0 when
\* none does.
FirstThrow(d, files) ==
  LET bad == {i \in 1..Len(files) :
                ~extractTextFromFile(d, files[i].path, files[i].mimetype).ok}
  IN  IF bad = {} THEN 0 ELSE CHOOSE i \in bad : \A j \in bad : i <= j

RECURSIVE UnlinkEach(_, _, _)
\* fs.unlinkSync on each path in turn, from the i-th on: the disk left and
\* the index of the path whose unlink threw ENOENT (0 when none did, and
\* then every path was unlinked).
UnlinkEach(d, paths, i) ==
  IF i > Len(paths) THEN [disk |-> d, threwAt |-> 0]
  ELSE IF paths[i] \notin DOMAIN d THEN [disk |-> d, threwAt |-> i]
  ELSE UnlinkEach(Without(d, {paths[i]}), paths, i + 1)

----------------------------------------------------------------------------
(* The prompts: the fixed text of each template literal and what the       *)
(* handlers insert into it.                                                *)

\* The rank-cvs prompt up to ${jobDescText}: 'You are an expert HR recruit ... vantages.\n\nJob Description:\n'
RankPromptHead ==
  <<89, 111, 117, 32, 97, 114, 101, 32, 97, 110, 32, 101, 120, 112, 101, 114,
    116, 32, 72, 82, 32, 114, 101, 99, 114, 117, 105, 116, 101, 114, 46, 32, 80,
    108, 101, 97, 115, 101, 32, 97, 110, 97, 108, 121, 122, 101, 32, 116, 104,
    101, 32, 102, 111, 108, 108, 111, 119, 105, 110, 103, 32, 67, 86, 115, 32,
    97, 103, 97, 105, 110, 115, 116, 32, 116, 104, 101, 32, 106, 111, 98, 32,
    100, 101, 115, 99, 114, 105, 112, 116, 105, 111, 110, 32, 97, 110, 100, 32,
    112, 114, 111, 118, 105, 100, 101, 32, 97, 32, 114, 97, 110, 107, 105, 110,
    103, 32, 102, 114, 111, 109, 32, 49, 45, 49, 48, 48, 32, 102, 111, 114, 32,
    101, 97, 99, 104, 32, 67, 86, 44, 32, 97, 108, 111, 110, 103, 32, 119, 105,
    116, 104, 32, 100, 101, 116, 97, 105, 108, 101, 100, 32, 101, 120, 112, 108,
    97, 110, 97, 116, 105, 111, 110, 115, 44, 32, 97, 100, 118, 97, 110, 116,
    97, 103, 101, 115, 44, 32, 97, 110, 100, 32, 100, 105, 115, 97, 100, 118,
    97, 110, 116, 97, 103, 101, 115, 46, 10, 10, 74, 111, 98, 32, 68, 101, 115,
    99, 114, 105, 112, 116, 105, 111, 110, 58, 10>>

\* between ${jobDescText} and the CV list: '\n\nCVs to analyze:\n'
RankPromptCvsHead ==
  <<10, 10, 67, 86, 115, 32, 116, 111, 32, 97, 110, 97, 108, 121, 122, 101, 58,
    10>>

\* after the CV list: '\n\nPlease provide your analys ... ot provided" for that field.'
RankPromptTail ==
  <<10, 10, 80, 108, 101, 97, 115, 101, 32, 112, 114, 111, 118, 105, 100, 101,
    32, 121, 111, 117, 114, 32, 97, 110, 97, 108, 121, 115, 105, 115, 32, 105,
    110, 32, 116, 104, 101, 32, 102, 111, 108, 108, 111, 119, 105, 110, 103, 32,
    74, 83, 79, 78, 32, 102, 111, 114, 109, 97, 116, 58, 10, 123, 10, 32, 32,
    34, 114, 97, 110, 107, 105, 110, 103, 115, 34, 58, 32, 91, 10, 32, 32, 32,
    32, 123, 10, 32, 32, 32, 32, 32, 32, 34, 102, 105, 108, 101, 110, 97, 109,
    101, 34, 58, 32, 34, 99, 118, 49, 46, 112, 100, 102, 34, 44, 10, 32, 32, 32,
    32, 32, 32, 34, 99, 97, 110, 100, 105, 100, 97, 116, 101, 78, 97, 109, 101,
    34, 58, 32, 34, 74, 111, 104, 110, 32, 68, 111, 101, 34, 44, 10, 32, 32, 32,
    32, 32, 32, 34, 112, 104, 111, 110, 101, 34, 58, 32, 34, 43, 49, 45, 53, 53,
    53, 45, 49, 50, 51, 45, 52, 53, 54, 55, 34, 44, 10, 32, 32, 32, 32, 32, 32,
    34, 101, 109, 97, 105, 108, 34, 58, 32, 34, 106, 111, 104, 110, 46, 100,
    111, 101, 64, 101, 109, 97, 105, 108, 46, 99, 111, 109, 34, 44, 10, 32, 32,
    32, 32, 32, 32, 34, 115, 99, 111, 114, 101, 34, 58, 32, 56, 53, 44, 10, 32,
    32, 32, 32, 32, 32, 34, 101, 120, 112, 108, 97, 110, 97, 116, 105, 111, 110,
    34, 58, 32, 34, 83, 116, 114, 111, 110, 103, 32, 116, 101, 99, 104, 110,
    105, 99, 97, 108, 32, 115, 107, 105, 108, 108, 115, 32, 109, 97, 116, 99,
    104, 46, 46, 46, 34, 44, 10, 32, 32, 32, 32, 32, 32, 34, 97, 100, 118, 97,
    110, 116, 97, 103, 101, 115, 34, 58, 32, 91, 34, 82, 101, 108, 101, 118, 97,
    110, 116, 32, 101, 120, 112, 101, 114, 105, 101, 110, 99, 101, 32, 105, 110,
    46, 46, 46, 34, 44, 32, 34, 83, 116, 114, 111, 110, 103, 32, 101, 100, 117,
    99, 97, 116, 105, 111, 110, 97, 108, 32, 98, 97, 99, 107, 103, 114, 111,
    117, 110, 100, 46, 46, 46, 34, 93, 44, 10, 32, 32, 32, 32, 32, 32, 34, 100,
    105, 115, 97, 100, 118, 97, 110, 116, 97, 103, 101, 115, 34, 58, 32, 91, 34,
    76, 97, 99, 107, 115, 32, 101, 120, 112, 101, 114, 105, 101, 110, 99, 101,
    32, 105, 110, 46, 46, 46, 34, 44, 32, 34, 67, 111, 117, 108, 100, 32, 105,
    109, 112, 114, 111, 118, 101, 46, 46, 46, 34, 93, 10, 32, 32, 32, 32, 125,
    10, 32, 32, 93, 10, 125, 10, 10, 73, 77, 80, 79, 82, 84, 65, 78, 84, 58, 32,
    69, 120, 116, 114, 97, 99, 116, 32, 116, 104, 101, 32, 99, 97, 110, 100,
    105, 100, 97, 116, 101, 39, 115, 32, 102, 117, 108, 108, 32, 110, 97, 109,
    101, 44, 32, 112, 104, 111, 110, 101, 32, 110, 117, 109, 98, 101, 114, 44,
    32, 97, 110, 100, 32, 101, 109, 97, 105, 108, 32, 97, 100, 100, 114, 101,
    115, 115, 32, 102, 114, 111, 109, 32, 101, 97, 99, 104, 32, 67, 86, 46, 32,
    73, 102, 32, 97, 110, 121, 32, 105, 110, 102, 111, 114, 109, 97, 116, 105,
    111, 110, 32, 105, 115, 32, 110, 111, 116, 32, 97, 118, 97, 105, 108, 97,
    98, 108, 101, 44, 32, 117, 115, 101, 32, 34, 78, 111, 116, 32, 112, 114,
    111, 118, 105, 100, 101, 100, 34, 32, 102, 111, 114, 32, 116, 104, 97, 116,
    32, 102, 105, 101, 108, 100, 46>>

\* The generate-cvs prompt up to the first ${numCVs}: 'You are an expert CV writer. Generate exactly '
GenPromptHead ==
  <<89, 111, 117, 32, 97, 114, 101, 32, 97, 110, 32, 101, 120, 112, 101, 114,
    116, 32, 67, 86, 32, 119, 114, 105, 116, 101, 114, 46, 32, 71, 101, 110,
    101, 114, 97, 116, 101, 32, 101, 120, 97, 99, 116, 108, 121, 32>>

\* between ${numCVs} and ${jobDescription}: ' different CVs that would be ... perience.\n\nJob Description:\n'
GenPromptJobHead ==
  <<32, 100, 105, 102, 102, 101, 114, 101, 110, 116, 32, 67, 86, 115, 32, 116,
    104, 97, 116, 32, 119, 111, 117, 108, 100, 32, 98, 101, 32, 115, 116, 114,
    111, 110, 103, 32, 109, 97, 116, 99, 104, 101, 115, 32, 102, 111, 114, 32,
    116, 104, 101, 32, 102, 111, 108, 108, 111, 119, 105, 110, 103, 32, 106,
    111, 98, 32, 100, 101, 115, 99, 114, 105, 112, 116, 105, 111, 110, 46, 32,
    85, 115, 101, 32, 116, 104, 101, 32, 112, 114, 111, 118, 105, 100, 101, 100,
    32, 98, 97, 115, 101, 32, 100, 97, 116, 97, 32, 97, 115, 32, 97, 32, 102,
    111, 117, 110, 100, 97, 116, 105, 111, 110, 32, 102, 111, 114, 32, 112, 101,
    114, 115, 111, 110, 97, 108, 32, 105, 110, 102, 111, 114, 109, 97, 116, 105,
    111, 110, 32, 97, 110, 100, 32, 101, 120, 112, 101, 114, 105, 101, 110, 99,
    101, 46, 10, 10, 74, 111, 98, 32, 68, 101, 115, 99, 114, 105, 112, 116, 105,
    111, 110, 58, 10>>

\* between ${jobDescription} and ${baseDataText}: '\n\nBase Data (use as foundation):\n'
GenPromptBaseHead ==
  <<10, 10, 66, 97, 115, 101, 32, 68, 97, 116, 97, 32, 40, 117, 115, 101, 32,
    97, 115, 32, 102, 111, 117, 110, 100, 97, 116, 105, 111, 110, 41, 58, 10>>

\* between ${baseDataText} and the second ${numCVs}: '\n\nIMPORTANT: Generate exactly '
GenPromptRules ==
  <<10, 10, 73, 77, 80, 79, 82, 84, 65, 78, 84, 58, 32, 71, 101, 110, 101, 114,
    97, 116, 101, 32, 101, 120, 97, 99, 116, 108, 121, 32>>

\* between the second and the third ${numCVs}: ' different CVs, each with un ... ng JSON format with exactly '
GenPromptFormat ==
  <<32, 100, 105, 102, 102, 101, 114, 101, 110, 116, 32, 67, 86, 115, 44, 32,
    101, 97, 99, 104, 32, 119, 105, 116, 104, 32, 117, 110, 105, 113, 117, 101,
    32, 115, 116, 114, 101, 110, 103, 116, 104, 115, 32, 97, 110, 100, 32, 97,
    112, 112, 114, 111, 97, 99, 104, 101, 115, 46, 32, 69, 97, 99, 104, 32, 67,
    86, 32, 115, 104, 111, 117, 108, 100, 32, 98, 101, 32, 99, 111, 109, 112,
    108, 101, 116, 101, 108, 121, 32, 100, 105, 102, 102, 101, 114, 101, 110,
    116, 32, 102, 114, 111, 109, 32, 116, 104, 101, 32, 111, 116, 104, 101, 114,
    115, 46, 10, 10, 70, 111, 114, 109, 97, 116, 32, 101, 97, 99, 104, 32, 67,
    86, 32, 97, 115, 32, 97, 32, 115, 116, 114, 117, 99, 116, 117, 114, 101,
    100, 32, 100, 111, 99, 117, 109, 101, 110, 116, 32, 119, 105, 116, 104, 32,
    99, 108, 101, 97, 114, 32, 115, 101, 99, 116, 105, 111, 110, 115, 32, 97,
    110, 100, 32, 112, 114, 111, 112, 101, 114, 32, 102, 111, 114, 109, 97, 116,
    116, 105, 110, 103, 58, 10, 10, 35, 32, 91, 67, 65, 78, 68, 73, 68, 65, 84,
    69, 32, 78, 65, 77, 69, 93, 10, 35, 35, 32, 80, 101, 114, 115, 111, 110, 97,
    108, 32, 73, 110, 102, 111, 114, 109, 97, 116, 105, 111, 110, 10, 45, 32,
    69, 109, 97, 105, 108, 58, 32, 91, 101, 109, 97, 105, 108, 93, 10, 45, 32,
    80, 104, 111, 110, 101, 58, 32, 91, 112, 104, 111, 110, 101, 93, 10, 45, 32,
    76, 111, 99, 97, 116, 105, 111, 110, 58, 32, 91, 108, 111, 99, 97, 116, 105,
    111, 110, 93, 10, 45, 32, 76, 105, 110, 107, 101, 100, 73, 110, 58, 32, 91,
    108, 105, 110, 107, 101, 100, 105, 110, 93, 10, 10, 35, 35, 32, 80, 114,
    111, 102, 101, 115, 115, 105, 111, 110, 97, 108, 32, 83, 117, 109, 109, 97,
    114, 121, 10, 91, 50, 45, 51, 32, 115, 101, 110, 116, 101, 110, 99, 101,
    115, 32, 104, 105, 103, 104, 108, 105, 103, 104, 116, 105, 110, 103, 32,
    107, 101, 121, 32, 115, 116, 114, 101, 110, 103, 116, 104, 115, 32, 97, 110,
    100, 32, 101, 120, 112, 101, 114, 105, 101, 110, 99, 101, 32, 114, 101, 108,
    101, 118, 97, 110, 116, 32, 116, 111, 32, 116, 104, 101, 32, 106, 111, 98,
    93, 10, 10, 35, 35, 32, 87, 111, 114, 107, 32, 69, 120, 112, 101, 114, 105,
    101, 110, 99, 101, 10, 35, 35, 35, 32, 91, 74, 111, 98, 32, 84, 105, 116,
    108, 101, 93, 32, 97, 116, 32, 91, 67, 111, 109, 112, 97, 110, 121, 93, 32,
    124, 32, 91, 68, 97, 116, 101, 115, 93, 10, 45, 32, 91, 65, 99, 104, 105,
    101, 118, 101, 109, 101, 110, 116, 32, 49, 32, 119, 105, 116, 104, 32, 109,
    101, 116, 114, 105, 99, 115, 93, 10, 45, 32, 91, 65, 99, 104, 105, 101, 118,
    101, 109, 101, 110, 116, 32, 50, 32, 119, 105, 116, 104, 32, 109, 101, 116,
    114, 105, 99, 115, 93, 10, 45, 32, 91, 65, 99, 104, 105, 101, 118, 101, 109,
    101, 110, 116, 32, 51, 32, 119, 105, 116, 104, 32, 109, 101, 116, 114, 105,
    99, 115, 93, 10, 10, 35, 35, 35, 32, 91, 80, 114, 101, 118, 105, 111, 117,
    115, 32, 74, 111, 98, 32, 84, 105, 116, 108, 101, 93, 32, 97, 116, 32, 91,
    67, 111, 109, 112, 97, 110, 121, 93, 32, 124, 32, 91, 68, 97, 116, 101, 115,
    93, 10, 45, 32, 91, 65, 99, 104, 105, 101, 118, 101, 109, 101, 110, 116, 32,
    49, 32, 119, 105, 116, 104, 32, 109, 101, 116, 114, 105, 99, 115, 93, 10,
    45, 32, 91, 65, 99, 104, 105, 101, 118, 101, 109, 101, 110, 116, 32, 50, 32,
    119, 105, 116, 104, 32, 109, 101, 116, 114, 105, 99, 115, 93, 10, 10, 35,
    35, 32, 69, 100, 117, 99, 97, 116, 105, 111, 110, 10, 35, 35, 35, 32, 91,
    68, 101, 103, 114, 101, 101, 93, 32, 105, 110, 32, 91, 70, 105, 101, 108,
    100, 93, 32, 124, 32, 91, 85, 110, 105, 118, 101, 114, 115, 105, 116, 121,
    93, 32, 124, 32, 91, 89, 101, 97, 114, 93, 10, 45, 32, 91, 82, 101, 108,
    101, 118, 97, 110, 116, 32, 99, 111, 117, 114, 115, 101, 119, 111, 114, 107,
    32, 111, 114, 32, 97, 99, 104, 105, 101, 118, 101, 109, 101, 110, 116, 115,
    93, 10, 10, 35, 35, 32, 83, 107, 105, 108, 108, 115, 10, 42, 42, 84, 101,
    99, 104, 110, 105, 99, 97, 108, 32, 83, 107, 105, 108, 108, 115, 58, 42, 42,
    32, 91, 76, 105, 115, 116, 32, 114, 101, 108, 101, 118, 97, 110, 116, 32,
    116, 101, 99, 104, 110, 105, 99, 97, 108, 32, 115, 107, 105, 108, 108, 115,
    93, 10, 42, 42, 83, 111, 102, 116, 32, 83, 107, 105, 108, 108, 115, 58, 42,
    42, 32, 91, 76, 105, 115, 116, 32, 114, 101, 108, 101, 118, 97, 110, 116,
    32, 115, 111, 102, 116, 32, 115, 107, 105, 108, 108, 115, 93, 10, 42, 42,
    67, 101, 114, 116, 105, 102, 105, 99, 97, 116, 105, 111, 110, 115, 58, 42,
    42, 32, 91, 76, 105, 115, 116, 32, 114, 101, 108, 101, 118, 97, 110, 116,
    32, 99, 101, 114, 116, 105, 102, 105, 99, 97, 116, 105, 111, 110, 115, 93,
    10, 10, 35, 35, 32, 65, 100, 100, 105, 116, 105, 111, 110, 97, 108, 32, 73,
    110, 102, 111, 114, 109, 97, 116, 105, 111, 110, 10, 45, 32, 91, 65, 110,
    121, 32, 111, 116, 104, 101, 114, 32, 114, 101, 108, 101, 118, 97, 110, 116,
    32, 105, 110, 102, 111, 114, 109, 97, 116, 105, 111, 110, 93, 10, 10, 82,
    101, 116, 117, 114, 110, 32, 116, 104, 101, 32, 114, 101, 115, 112, 111,
    110, 115, 101, 32, 105, 110, 32, 116, 104, 101, 32, 102, 111, 108, 108, 111,
    119, 105, 110, 103, 32, 74, 83, 79, 78, 32, 102, 111, 114, 109, 97, 116, 32,
    119, 105, 116, 104, 32, 101, 120, 97, 99, 116, 108, 121, 32>>

\* after the third ${numCVs}: ' CVs:\n{\n  "cvs": [\n    {\n    ...  shown above..."\n    }\n  ]\n}'
GenPromptTail ==
  <<32, 67, 86, 115, 58, 10, 123, 10, 32, 32, 34, 99, 118, 115, 34, 58, 32, 91,
    10, 32, 32, 32, 32, 123, 10, 32, 32, 32, 32, 32, 32, 34, 116, 105, 116, 108,
    101, 34, 58, 32, 34, 67, 86, 32, 49, 32, 45, 32, 91, 85, 110, 105, 113, 117,
    101, 32, 70, 111, 99, 117, 115, 47, 65, 112, 112, 114, 111, 97, 99, 104, 93,
    34, 44, 10, 32, 32, 32, 32, 32, 32, 34, 99, 111, 110, 116, 101, 110, 116,
    34, 58, 32, 34, 70, 117, 108, 108, 32, 67, 86, 32, 99, 111, 110, 116, 101,
    110, 116, 32, 119, 105, 116, 104, 32, 112, 114, 111, 112, 101, 114, 32, 102,
    111, 114, 109, 97, 116, 116, 105, 110, 103, 32, 97, 115, 32, 115, 104, 111,
    119, 110, 32, 97, 98, 111, 118, 101, 46, 46, 46, 34, 10, 32, 32, 32, 32,
    125, 44, 10, 32, 32, 32, 32, 123, 10, 32, 32, 32, 32, 32, 32, 34, 116, 105,
    116, 108, 101, 34, 58, 32, 34, 67, 86, 32, 50, 32, 45, 32, 91, 68, 105, 102,
    102, 101, 114, 101, 110, 116, 32, 70, 111, 99, 117, 115, 47, 65, 112, 112,
    114, 111, 97, 99, 104, 93, 34, 44, 10, 32, 32, 32, 32, 32, 32, 34, 99, 111,
    110, 116, 101, 110, 116, 34, 58, 32, 34, 70, 117, 108, 108, 32, 67, 86, 32,
    99, 111, 110, 116, 101, 110, 116, 32, 119, 105, 116, 104, 32, 112, 114, 111,
    112, 101, 114, 32, 102, 111, 114, 109, 97, 116, 116, 105, 110, 103, 32, 97,
    115, 32, 115, 104, 111, 119, 110, 32, 97, 98, 111, 118, 101, 46, 46, 46, 34,
    10, 32, 32, 32, 32, 125, 10, 32, 32, 93, 10, 125>>

RECURSIVE Decimal(_)
\* The decimal numeral of a natural number, as a template literal prints it.
Decimal(n) ==
  IF n < 10 THEN <<48 + n>> ELSE Decimal(n \div 10) \o <<48 + (n % 10)>>

\* `CV ${index + 1} (${cv.filename}):\n${cv.text}\n---`, index counted from 0.
CvEntry(cv, index) ==
  <<67, 86, 32>> \o Decimal(index + 1) \o <<32, 40>> \o cv.filename \o
  <<41, 58, 10>> \o cv.text \o <<10, 45, 45, 45>>

RECURSIVE JoinLines(_)
\* Array.prototype.join('\n')
JoinLines(strings) ==
  IF strings = <<>> THEN <<>>
  ELSE IF Len(strings) = 1 THEN strings[1]
  ELSE strings[1] \o <<10>> \o JoinLines(Tail(strings))

\* The prompt of /api/rank-cvs.
RankPrompt(jobDescText, cvTexts) ==
  RankPromptHead \o jobDescText \o RankPromptCvsHead \o
  JoinLines([i \in 1..Len(cvTexts) |-> CvEntry(cvTexts[i], i - 1)]) \o
  RankPromptTail

\* The prompt of /api/generate-cvs.
GenPrompt(numCVs, jobDescription, baseDataText) ==
  GenPromptHead \o Decimal(numCVs) \o GenPromptJobHead \o jobDescription \o
  GenPromptBaseHead \o baseDataText \o GenPromptRules \o Decimal(numCVs) \o
  GenPromptFormat \o Decimal(numCVs) \o GenPromptTail

----------------------------------------------------------------------------
(* Requests, completions and responses. *)

NoBody == [jobDescription |-> <<>>, numberOfCVs |-> <<>>, additionalData |-> <<>>]
NoRequest == [route |-> "none", parts |-> <<>>, body |-> NoBody]
NoFiles == [cvs |-> <<>>, jobDescription |-> <<>>, baseData |-> <<>>]
NoLocals ==
  [jobDescText |-> <<>>, cvTexts |-> <<>>, numCVs |-> NaN, baseDataText |-> <<>>,
   prompt |-> <<>>]
NoCompletion == [kind |-> "none", content |-> <<>>]
NoResponse == [status |-> 0, kind |-> "none", error |-> <<>>, data |-> JNull]

\* The sequences over S of length at most n.
SeqsUpTo(S, n) == UNION {[1..k -> S] : k \in 0..n}

PartsOf(field, files) == [i \in 1..Len(files) |-> [field |-> field, file |-> files[i]]]

\* The multipart submissions to POST /api/rank-cvs: the cvs files, then at
\* most one jobDescription file.
RankRequests ==
  {[route |-> "rank", parts |-> PartsOf("cvs", cvs) \o PartsOf("jobDescription", jd),
    body |-> NoBody] :
     cvs \in SeqsUpTo(Files, MaxCvs), jd \in SeqsUpTo(Files, MaxJobDescriptionCount)}

\* The characters of the numberOfCVs field: "0", "1", "-", "." and "a".
NumChars == {48, 49, 45, 46, 97}

\* A form field is absent (<<>>) or holds one string.
Field(S) == {<<>>} \cup {<<s>> : s \in S}

\* The submissions to POST /api/generate-cvs.
GenRequests ==
  {[route |-> "gen", parts |-> PartsOf("baseData", bd),
    body |-> [jobDescription |-> jd, numberOfCVs |-> n, additionalData |-> ad]] :
     bd \in SeqsUpTo(Files, MaxBaseDataCount),
     jd \in Field({<<>>, JobText}),
     n \in Field(SeqsUpTo(NumChars, MaxNumLen)),
     ad \in Field({AdditionalText})}

\* What awaiting openai.chat.completions.create and reading
\* choices[0].message.content gives: a rejected call, a null content, or a text.
Completions ==
  {[kind |-> "rejected", content |-> <<>>], [kind |-> "null", content |-> <<>>]}
  \cup {[kind |-> "text", content |-> t] : t \in ModelTexts}

\* res.status(status).json({ error: prefix + message })
ErrorResponse(status, prefix, message) ==
  [status |-> status, kind |-> "error", error |-> <<prefix, message>>, data |-> JNull]

\* Express's default error handler, reached through next(err): no error
\* middleware is registered, and the errors of the upload middleware carry
\* no status, so the answer is 500.
UnhandledErrorResponse(message) ==
  [status |-> 500, kind |-> "unhandled", error |-> <<"", message>>, data |-> JNull]

\* An answer that sends the fallback data where the parsed data belongs.
ParsedResponseSendingFallback(parsedData) ==
  [status |-> 200, kind |-> "parsed", error |-> <<>>,
   data |-> JObj(K_rankings :> JArr(<<JObj(K_score :> JNum(0))>>))]

\* res.json({ success: true, data: parsedData })
ParsedResponse(parsedData) ==
  [status |-> 200, kind |-> "parsed", error |-> <<>>, data |-> parsedData]

\* res.json({ success: true, data: fallbackData })
FallbackResponse(fallbackData) ==
  [status |-> 200, kind |-> "fallback", error |-> <<>>, data |-> fallbackData]

\* fallbackData of /api/rank-cvs.
RankFallbackData ==
  JObj(K_rankings :> JArr(<<
    JObj((K_filename :> JStr(FallbackFilename)) @@ (K_score :> JNum(0)) @@
         (K_explanation :> JStr(FallbackExplanation)) @@
         (K_advantages :> JArr(<<>>)) @@ (K_disadvantages :> JArr(<<>>)))>>))

\* A fallback document that leaves the model's text out.
GenFallbackDataWithoutText(cleanedResponse) ==
  JObj(K_cvs :> JArr(<<
    JObj((K_title :> JStr(FallbackTitle)) @@ (K_content :> JStr(<<>>)))>>))

\* fallbackData of /api/generate-cvs.
GenFallbackData(cleanedResponse) ==
  JObj(K_cvs :> JArr(<<
    JObj((K_title :> JStr(FallbackTitle)) @@ (K_content :> JStr(cleanedResponse)))>>))

\* The try / catch around JSON.parse(cleanedResponse) of /api/rank-cvs.
RankNormalize(cleanedResponse) ==
  LET parsed == JSONParse(cleanedResponse) IN
  IF parsed.ok THEN ParsedResponse(parsed.val) ELSE FallbackResponse(RankFallbackData)

\* The try / catch around JSON.parse(cleanedResponse) of /api/generate-cvs.
GenNormalize(cleanedResponse) ==
  LET parsed == JSONParse(cleanedResponse) IN
  IF parsed.ok THEN ParsedResponse(parsed.val)
  ELSE FallbackResponse(GenFallbackData(cleanedResponse))

\* JavaScript's !x for a form field.
Falsy(field) == IF field = <<>> THEN TRUE ELSE field[1] = <<>>

\* parseInt of a form field; an absent field is undefined and gives NaN.
ParseIntField(field) == IF field = <<>> THEN NaN ELSE ParseInt(field[1])

\* !numCVs || numCVs < 1
BadCount(numCVs) == numCVs.nan \/ numCVs.val = 0 \/ numCVs.val < 1

----------------------------------------------------------------------------
(* The state: one request, from its submission to its answer, against an   *)
(* upload directory that starts empty.                                     *)

VARIABLES
  now,         \* the last reading of Date.now()
  disk,        \* the upload directory: path -> the file stored there
  pc,          \* "idle", "upload", "handler", "model" or "done"
  req,         \* the submission
  files,       \* req.files / req.file as the upload middleware leaves them
  locals,      \* jobDescText, cvTexts, numCVs, baseDataText and prompt of
               \* the handler
  completion,  \* what the model call gave
  resp,        \* the answer sent
  written,     \* the files handed to the disk storage for this request
  unlinked,    \* the paths the handler called fs.unlinkSync on
  extracted,   \* the number of calls of extractTextFromFile
  modelCalls,  \* the number of calls of openai.chat.completions.create
  call         \* a call of extractTextFromFile taken by itself: its
               \* arguments and its outcome

VARIABLES
  pdf,         \* a POST /api/download-pdf call: its position, its request
               \* body, the browser it launched and its answer
  app,         \* the state of App: currentMode, generatedCVs, jobDescription
               \* and shouldAutoRank
  rk,          \* the state of CVRanking
  gn,          \* the state of CVGeneration
  net,         \* the requests of the client that are in flight
  issued,      \* the number of requests the client has sent
  view         \* the ranking results as stored and as displayed

\* What the upload handlers and extractTextFromFile never touch.
others == <<pdf, app, rk, gn, net, issued, view>>

\* The variables of the client.
client == <<app, rk, gn, net, issued>>

\* The variables of the upload handlers and of extractTextFromFile.
pipeline ==
  <<now, disk, pc, req, files, locals, completion, resp, written, unlinked,
    extracted, modelCalls, call>>

\* No download call is in progress.
NoPdfCall ==
  [pc |-> "idle", body |-> [content |-> <<>>, title |-> <<>>],
   browser |-> "none", page |-> "none", pdfBuffer |-> <<>>,
   status |-> 0, error |-> "", disposition |-> <<>>, sent |-> <<>>]

\* The React components as they are mounted: useState's initial values.
\* A file input holds no file (<<>>) or one (<<name>>); sentAuto counts the
\* auto-rank requests sent since the last accepted click on 'Rank Generated
\* CVs', and resultsOf is the request whose rankings are in results.
AppMounted ==
  [currentMode |-> "ranking", generatedCVs |-> <<>>, jobDescription |-> <<>>,
   shouldAutoRank |-> FALSE, sentAuto |-> 0]

RankingMounted ==
  [cvs |-> <<>>, jobDescriptionFile |-> <<>>, jobDescriptionText |-> <<>>,
   isLoading |-> FALSE, results |-> <<>>, error |-> "", resultsOf |-> 0]

GenerationMounted ==
  [jobDescription |-> <<>>, numberOfCVs |-> 2, additionalData |-> <<>>,
   baseDataFile |-> <<>>, isLoading |-> FALSE, generatedCVs |-> <<>>,
   error |-> ""]

\* Nothing is rendered yet.
NoView == [version |-> "none", results |-> <<>>, given |-> <<>>, shown |-> <<>>,
           rendered |-> FALSE]

ClientIdle ==
  /\ app = AppMounted
  /\ rk = RankingMounted
  /\ gn = GenerationMounted
  /\ net = {}
  /\ issued = 0

OthersIdle ==
  /\ pdf = NoPdfCall
  /\ ClientIdle
  /\ view = NoView

vars ==
  <<now, disk, pc, req, files, locals, completion, resp, written, unlinked,
    extracted, modelCalls, call, others>>

\* No call of extractTextFromFile is taken by itself.
NoCall ==
  [state |-> "none", filePath |-> <<0, <<>>>>, mimetype |-> "",
   outcome |-> Threw("")]

Init ==
  /\ now = 0
  /\ disk = <<>>
  /\ pc = "idle"
  /\ req = NoRequest
  /\ files = NoFiles
  /\ locals = NoLocals
  /\ completion = NoCompletion
  /\ resp = NoResponse
  /\ written = {}
  /\ unlinked = {}
  /\ extracted = 0
  /\ modelCalls = 0
  /\ call = NoCall
  /\ OthersIdle

\* A client posts a multipart submission to /api/rank-cvs.
SubmitRank ==
  /\ pc = "idle"
  /\ \E r \in RankRequests : req' = r
  /\ pc' = "upload"
  /\ UNCHANGED <<now, disk, files, locals, completion, resp, written,
                 unlinked, extracted, modelCalls, call, others>>

\* A client posts a submission to /api/generate-cvs.
SubmitGen ==
  /\ pc = "idle"
  /\ \E r \in GenRequests : req' = r
  /\ pc' = "upload"
  /\ UNCHANGED <<now, disk, files, locals, completion, resp, written,
                 unlinked, extracted, modelCalls, call, others>>

\* The stored files of a field, in the order of their parts.
OfField(stored, field) == SelectSeq(stored, LAMBDA f : f.fieldname = field)

\* The upload middleware accepts every part: each is written under the name
\* filename gives it at the time it is handled, and the handler is called.
UploadAccepted ==
  /\ pc = "upload"
  /\ FirstRefused(req.route, req.parts) = 0
  /\ \E times \in Readings(now, Len(req.parts)) :
       LET n == Len(req.parts)
           stored == [i \in 1..n |-> StoredFile(req.parts[i], times[i])]
       IN  /\ now' = IF n = 0 THEN now ELSE times[n]
           /\ disk' = WriteAll(disk, req.parts, times, n)
           /\ written' = {req.parts[i].file : i \in 1..n}
           /\ files' = [cvs |-> OfField(stored, "cvs"),
                        jobDescription |-> OfField(stored, "jobDescription"),
                        baseData |-> OfField(stored, "baseData")]
  /\ pc' = "handler"
  /\ UNCHANGED <<req, locals, completion, resp, unlinked, extracted,
                 modelCalls, call, others>>

\* The upload middleware refuses a part: the parts before it were written,
\* the refused part and those after it are not; the middleware removes what
\* it wrote and passes the error to next, so the handler is not called.
UploadRefused ==
  /\ pc = "upload"
  /\ FirstRefused(req.route, req.parts) # 0
  /\ LET bad == FirstRefused(req.route, req.parts)
         n == bad - 1
     IN  \E times \in Readings(now, n) :
           /\ now' = IF n = 0 THEN now ELSE times[n]
           /\ disk' = Without(WriteAll(disk, req.parts, times, n),
                              {filename(times[i], req.parts[i].file) : i \in 1..n})
           /\ written' = {req.parts[i].file : i \in 1..n}
           /\ resp' = UnhandledErrorResponse(
                        IF fileFilter(req.parts[bad].file) THEN "Unexpected field"
                        ELSE "Invalid file type. Only PDF, DOC, DOCX, and TXT files are allowed.")
  /\ pc' = "done"
  /\ UNCHANGED <<req, files, locals, completion, unlinked, extracted,
                 modelCalls, call, others>>

\* /api/rank-cvs without a cvs file or without a jobDescription file: 400.
RankMissingPart ==
  /\ pc = "handler" /\ req.route = "rank"
  /\ files.cvs = <<>> \/ files.jobDescription = <<>>
  /\ resp' = ErrorResponse(400, "",
               IF files.cvs = <<>> THEN "No CV files uploaded"
               ELSE "No job description uploaded")
  /\ pc' = "done"
  /\ UNCHANGED <<now, disk, req, files, locals, completion, written, unlinked,
                 extracted, modelCalls, call, others>>

\* The files /api/rank-cvs extracts, in the order it extracts them.
RankExtractionOrder == <<files.jobDescription[1]>> \o files.cvs

\* /api/rank-cvs: an extraction throws; the catch answers 500.
RankExtractionFails ==
  /\ pc = "handler" /\ req.route = "rank"
  /\ files.cvs # <<>> /\ files.jobDescription # <<>>
  /\ FirstThrow(disk, RankExtractionOrder) # 0
  /\ LET k == FirstThrow(disk, RankExtractionOrder)
         f == RankExtractionOrder[k]
     IN  /\ extracted' = k
         /\ resp' = ErrorResponse(500, "Failed to rank CVs: ",
                      extractTextFromFile(disk, f.path, f.mimetype).message)
  /\ pc' = "done"
  /\ UNCHANGED <<now, disk, req, files, locals, completion, written, unlinked,
                 modelCalls, call, others>>

\* /api/rank-cvs: every text is extracted and the model is called.
RankCallsModel ==
  /\ pc = "handler" /\ req.route = "rank"
  /\ files.cvs # <<>> /\ files.jobDescription # <<>>
  /\ FirstThrow(disk, RankExtractionOrder) = 0
  /\ LET jobDescText ==
           extractTextFromFile(disk, files.jobDescription[1].path,
                               files.jobDescription[1].mimetype).text
         cvTexts ==
           [i \in 1..Len(files.cvs) |->
              [filename |-> files.cvs[i].originalname,
               text |-> extractTextFromFile(disk, files.cvs[i].path,
                                            files.cvs[i].mimetype).text]]
     IN  locals' = [locals EXCEPT !.jobDescText = jobDescText,
                                  !.cvTexts = cvTexts,
                                  !.prompt = RankPrompt(jobDescText, cvTexts)]
  /\ extracted' = Len(RankExtractionOrder)
  /\ modelCalls' = modelCalls + 1
  /\ pc' = "model"
  /\ UNCHANGED <<now, disk, req, files, completion, resp, written, unlinked,
                 call, others>>

\* A handler that goes back to its start when the model call fails, and so
\* extracts and calls again.
RankModelFailsRetrying ==
  /\ pc = "model" /\ req.route = "rank"
  /\ \E c \in {k \in Completions : k.kind # "text"} : completion' = c
  /\ pc' = "handler"
  /\ UNCHANGED <<now, disk, req, files, locals, resp, written, unlinked,
                 extracted, modelCalls, call, others>>

\* The call of the model is rejected, or its content is null and
\* response.replace throws: the catch answers 500, before the clean-up.
RankModelFails ==
  /\ pc = "model" /\ req.route = "rank"
  /\ \E c \in {k \in Completions : k.kind # "text"} :
       /\ completion' = c
       /\ resp' = ErrorResponse(500, "Failed to rank CVs: ",
                    IF c.kind = "rejected" THEN "API error" ELSE "TypeError")
  /\ pc' = "done"
  /\ UNCHANGED <<now, disk, req, files, locals, written, unlinked, extracted,
                 modelCalls, call, others>>

\* The paths /api/rank-cvs unlinks, in order: [...cvs, ...jobDescription].
RankCleanupPaths ==
  [i \in 1..Len(files.cvs \o files.jobDescription) |->
     (files.cvs \o files.jobDescription)[i].path]

\* The model answers a text: it is cleaned, the uploaded files are unlinked
\* (a throwing unlink ends in the catch, which answers 500), and the cleaned
\* text is parsed and answered, or the fallback is.
RankModelAnswers ==
  /\ pc = "model" /\ req.route = "rank"
  /\ \E c \in {k \in Completions : k.kind = "text"} :
       LET cleanedResponse == Clean(c.content)
           u == UnlinkEach(disk, RankCleanupPaths, 1)
       IN  /\ completion' = c
           /\ disk' = u.disk
           /\ unlinked' =
                {RankCleanupPaths[i] :
                   i \in 1..(IF u.threwAt = 0 THEN Len(RankCleanupPaths) ELSE u.threwAt)}
           /\ resp' = IF u.threwAt # 0
                        THEN ErrorResponse(500, "Failed to rank CVs: ", "ENOENT")
                        ELSE RankNormalize(cleanedResponse)
  /\ pc' = "done"
  /\ UNCHANGED <<now, req, files, locals, written, extracted, modelCalls,
                 call, others>>

\* /api/generate-cvs without a job description or with a bad count: 400.
GenRejects ==
  /\ pc = "handler" /\ req.route = "gen"
  /\ Falsy(req.body.jobDescription) \/ BadCount(ParseIntField(req.body.numberOfCVs))
  /\ resp' = ErrorResponse(400, "",
               IF Falsy(req.body.jobDescription) THEN "Job description is required"
               ELSE "Number of CVs must be a positive integer")
  /\ pc' = "done"
  /\ UNCHANGED <<now, disk, req, files, locals, completion, written, unlinked,
                 extracted, modelCalls, call, others>>

GenAccepted ==
  /\ pc = "handler" /\ req.route = "gen"
  /\ ~Falsy(req.body.jobDescription)
  /\ ~BadCount(ParseIntField(req.body.numberOfCVs))

\* /api/generate-cvs: the extraction of the base data file throws: 500.
GenExtractionFails ==
  /\ GenAccepted
  /\ files.baseData # <<>>
  /\ ~extractTextFromFile(disk, files.baseData[1].path, files.baseData[1].mimetype).ok
  /\ extracted' = 1
  /\ resp' = ErrorResponse(500, "Failed to generate CVs: ",
               extractTextFromFile(disk, files.baseData[1].path,
                                   files.baseData[1].mimetype).message)
  /\ pc' = "done"
  /\ UNCHANGED <<now, disk, req, files, locals, completion, written, unlinked,
                 modelCalls, call, others>>

\* A base data that prefers the additional data to the uploaded file.
BaseDataTextPreferringAdditionalData(additionalData, uploaded, extractedText) ==
  IF ~Falsy(additionalData) THEN additionalData[1]
  ELSE IF uploaded THEN extractedText ELSE <<>>

\* let baseDataText = additionalData || ''; if (req.file) baseDataText = the
\* text extracted from the file.
BaseDataText(additionalData, uploaded, extractedText) ==
  IF uploaded THEN extractedText
  ELSE IF Falsy(additionalData) THEN <<>> ELSE additionalData[1]

\* /api/generate-cvs: the base data is the additional data, or the text of
\* the file, which is then unlinked; the prompt is built and the model is
\* called.
GenCallsModel ==
  /\ GenAccepted
  /\ LET uploaded == files.baseData # <<>>
         e == IF uploaded
                THEN extractTextFromFile(disk, files.baseData[1].path,
                                         files.baseData[1].mimetype)
                ELSE Returned(<<>>)
         numCVs == ParseIntField(req.body.numberOfCVs)
         baseDataText == BaseDataText(req.body.additionalData, uploaded, e.text)
     IN  /\ e.ok
         /\ locals' =
              [locals EXCEPT
                 !.numCVs = numCVs,
                 !.baseDataText = baseDataText,
                 !.prompt = GenPrompt(numCVs.val, req.body.jobDescription[1],
                                      baseDataText)]
         /\ IF uploaded
              THEN /\ extracted' = 1
                   /\ disk' = UnlinkEach(disk, <<files.baseData[1].path>>, 1).disk
                   /\ unlinked' = {files.baseData[1].path}
              ELSE UNCHANGED <<disk, unlinked, extracted>>
  /\ modelCalls' = modelCalls + 1
  /\ pc' = "model"
  /\ UNCHANGED <<now, req, files, completion, resp, written, call, others>>

\* The call of the model is rejected, or its content is null: 500.
GenModelFails ==
  /\ pc = "model" /\ req.route = "gen"
  /\ \E c \in {k \in Completions : k.kind # "text"} :
       /\ completion' = c
       /\ resp' = ErrorResponse(500, "Failed to generate CVs: ",
                    IF c.kind = "rejected" THEN "API error" ELSE "TypeError")
  /\ pc' = "done"
  /\ UNCHANGED <<now, disk, req, files, locals, written, unlinked, extracted,
                 modelCalls, call, others>>

\* The model answers a text: it is cleaned, parsed and answered, or the
\* fallback document holding the cleaned text is.
GenModelAnswers ==
  /\ pc = "model" /\ req.route = "gen"
  /\ \E c \in {k \in Completions : k.kind = "text"} :
       /\ completion' = c
       /\ resp' = GenNormalize(Clean(c.content))
  /\ pc' = "done"
  /\ UNCHANGED <<now, disk, req, files, locals, written, unlinked, extracted,
                 modelCalls, call, others>>

Next ==
  \/ SubmitRank
  \/ SubmitGen
  \/ UploadAccepted
  \/ UploadRefused
  \/ RankMissingPart
  \/ RankExtractionFails
  \/ RankCallsModel
  \/ RankModelFails
  \/ RankModelAnswers
  \/ GenRejects
  \/ GenExtractionFails
  \/ GenCallsModel
  \/ GenModelFails
  \/ GenModelAnswers

Spec == Init /\ [][Next]_vars

----------------------------------------------------------------------------
(* extractTextFromFile taken by itself: one call, with any path and any    *)
(* media type, against an upload directory holding at most one file.       *)

\* The paths the storage can have given at time 0.
ExtractPaths == {filename(0, f) : f \in Files}

\* The upload directories: empty, or one file under one of the paths.
ExtractDisks == {<<>>} \cup {p :> f : p \in ExtractPaths, f \in Files}

InitExtract ==
  /\ now = 0
  /\ disk \in ExtractDisks
  /\ pc = "idle"
  /\ req = NoRequest
  /\ files = NoFiles
  /\ locals = NoLocals
  /\ completion = NoCompletion
  /\ resp = NoResponse
  /\ written = {}
  /\ unlinked = {}
  /\ extracted = 0
  /\ modelCalls = 0
  /\ call \in {[state |-> "pending", filePath |-> p, mimetype |-> t,
                 outcome |-> Threw("")] : p \in ExtractPaths, t \in MediaTypes}
  /\ OthersIdle

\* The call settles: it returns a text or throws.
ExtractCall ==
  /\ call.state = "pending"
  /\ call' = [call EXCEPT
                !.state = "settled",
                !.outcome = extractTextFromFile(disk, call.filePath, call.mimetype)]
  /\ extracted' = extracted + 1
  /\ UNCHANGED <<now, disk, pc, req, files, locals, completion, resp, written,
                 unlinked, modelCalls, others>>

NextExtract == ExtractCall

SpecExtract == InitExtract /\ [][NextExtract]_vars

----------------------------------------------------------------------------
(* /api/rank-cvs under bulk submissions: up to MaxBulk copies of one file  *)
(* in the cvs field.                                                       *)

\* The bulk submissions: n times the same file in cvs, then at most one
\* jobDescription file.
BulkRequests ==
  {[route |-> "rank",
    parts |-> PartsOf("cvs", [i \in 1..n |-> f]) \o PartsOf("jobDescription", jd),
    body |-> NoBody] :
     n \in 0..MaxBulk, f \in Files,
     jd \in SeqsUpTo({g \in Files : g.mimetype = Txt}, MaxJobDescriptionCount)}

\* A client posts a bulk submission to /api/rank-cvs.
SubmitBulk ==
  /\ pc = "idle"
  /\ \E r \in BulkRequests : req' = r
  /\ pc' = "upload"
  /\ UNCHANGED <<now, disk, files, locals, completion, resp, written,
                 unlinked, extracted, modelCalls, call, others>>

NextBulk ==
  \/ SubmitBulk
  \/ UploadAccepted
  \/ UploadRefused
  \/ RankMissingPart
  \/ RankExtractionFails
  \/ RankCallsModel
  \/ RankModelFails
  \/ RankModelAnswers

SpecBulk == Init /\ [][NextBulk]_vars

----------------------------------------------------------------------------
(* POST /api/download-pdf: the HTML of the document, the browser that      *)
(* renders it, and the answer.                                             *)

\* The HTML template up to the first ${title}: '\n      <!DOCTYPE html>\n      ... set="utf-8">\n        <title>'
HtmlHead ==
  <<10, 32, 32, 32, 32, 32, 32, 60, 33, 68, 79, 67, 84, 89, 80, 69, 32, 104,
    116, 109, 108, 62, 10, 32, 32, 32, 32, 32, 32, 60, 104, 116, 109, 108, 62,
    10, 32, 32, 32, 32, 32, 32, 60, 104, 101, 97, 100, 62, 10, 32, 32, 32, 32,
    32, 32, 32, 32, 60, 109, 101, 116, 97, 32, 99, 104, 97, 114, 115, 101, 116,
    61, 34, 117, 116, 102, 45, 56, 34, 62, 10, 32, 32, 32, 32, 32, 32, 32, 32,
    60, 116, 105, 116, 108, 101, 62>>

\* between the first and the second ${title}: '</title>\n        <style>\n    ... d>\n      <body>\n        <h1>'
HtmlStyle ==
  <<60, 47, 116, 105, 116, 108, 101, 62, 10, 32, 32, 32, 32, 32, 32, 32, 32, 60,
    115, 116, 121, 108, 101, 62, 10, 32, 32, 32, 32, 32, 32, 32, 32, 32, 32, 98,
    111, 100, 121, 32, 123, 10, 32, 32, 32, 32, 32, 32, 32, 32, 32, 32, 32, 32,
    102, 111, 110, 116, 45, 102, 97, 109, 105, 108, 121, 58, 32, 39, 83, 101,
    103, 111, 101, 32, 85, 73, 39, 44, 32, 84, 97, 104, 111, 109, 97, 44, 32,
    71, 101, 110, 101, 118, 97, 44, 32, 86, 101, 114, 100, 97, 110, 97, 44, 32,
    115, 97, 110, 115, 45, 115, 101, 114, 105, 102, 59, 10, 32, 32, 32, 32, 32,
    32, 32, 32, 32, 32, 32, 32, 108, 105, 110, 101, 45, 104, 101, 105, 103, 104,
    116, 58, 32, 49, 46, 54, 59, 10, 32, 32, 32, 32, 32, 32, 32, 32, 32, 32, 32,
    32, 99, 111, 108, 111, 114, 58, 32, 35, 51, 51, 51, 59, 10, 32, 32, 32, 32,
    32, 32, 32, 32, 32, 32, 32, 32, 109, 97, 120, 45, 119, 105, 100, 116, 104,
    58, 32, 56, 48, 48, 112, 120, 59, 10, 32, 32, 32, 32, 32, 32, 32, 32, 32,
    32, 32, 32, 109, 97, 114, 103, 105, 110, 58, 32, 48, 32, 97, 117, 116, 111,
    59, 10, 32, 32, 32, 32, 32, 32, 32, 32, 32, 32, 32, 32, 112, 97, 100, 100,
    105, 110, 103, 58, 32, 50, 48, 112, 120, 59, 10, 32, 32, 32, 32, 32, 32, 32,
    32, 32, 32, 125, 10, 32, 32, 32, 32, 32, 32, 32, 32, 32, 32, 104, 49, 32,
    123, 10, 32, 32, 32, 32, 32, 32, 32, 32, 32, 32, 32, 32, 102, 111, 110, 116,
    45, 115, 105, 122, 101, 58, 32, 50, 56, 112, 120, 59, 10, 32, 32, 32, 32,
    32, 32, 32, 32, 32, 32, 32, 32, 109, 97, 114, 103, 105, 110, 45, 116, 111,
    112, 58, 32, 48, 59, 10, 32, 32, 32, 32, 32, 32, 32, 32, 32, 32, 32, 32,
    116, 101, 120, 116, 45, 97, 108, 105, 103, 110, 58, 32, 99, 101, 110, 116,
    101, 114, 59, 10, 32, 32, 32, 32, 32, 32, 32, 32, 32, 32, 32, 32, 99, 111,
    108, 111, 114, 58, 32, 35, 49, 97, 50, 53, 50, 102, 59, 10, 32, 32, 32, 32,
    32, 32, 32, 32, 32, 32, 32, 32, 98, 111, 114, 100, 101, 114, 45, 98, 111,
    116, 116, 111, 109, 58, 32, 51, 112, 120, 32, 115, 111, 108, 105, 100, 32,
    35, 51, 52, 57, 56, 100, 98, 59, 10, 32, 32, 32, 32, 32, 32, 32, 32, 32, 32,
    32, 32, 112, 97, 100, 100, 105, 110, 103, 45, 98, 111, 116, 116, 111, 109,
    58, 32, 49, 48, 112, 120, 59, 10, 32, 32, 32, 32, 32, 32, 32, 32, 32, 32,
    32, 32, 109, 97, 114, 103, 105, 110, 45, 98, 111, 116, 116, 111, 109, 58,
    32, 50, 48, 112, 120, 59, 10, 32, 32, 32, 32, 32, 32, 32, 32, 32, 32, 32,
    32, 102, 111, 110, 116, 45, 119, 101, 105, 103, 104, 116, 58, 32, 54, 48,
    48, 59, 10, 32, 32, 32, 32, 32, 32, 32, 32, 32, 32, 125, 10, 32, 32, 32, 32,
    32, 32, 32, 32, 32, 32, 104, 50, 32, 123, 10, 32, 32, 32, 32, 32, 32, 32,
    32, 32, 32, 32, 32, 102, 111, 110, 116, 45, 115, 105, 122, 101, 58, 32, 50,
    48, 112, 120, 59, 10, 32, 32, 32, 32, 32, 32, 32, 32, 32, 32, 32, 32, 99,
    111, 108, 111, 114, 58, 32, 35, 50, 99, 51, 101, 53, 48, 59, 10, 32, 32, 32,
    32, 32, 32, 32, 32, 32, 32, 32, 32, 109, 97, 114, 103, 105, 110, 45, 116,
    111, 112, 58, 32, 50, 53, 112, 120, 59, 10, 32, 32, 32, 32, 32, 32, 32, 32,
    32, 32, 32, 32, 109, 97, 114, 103, 105, 110, 45, 98, 111, 116, 116, 111,
    109, 58, 32, 49, 53, 112, 120, 59, 10, 32, 32, 32, 32, 32, 32, 32, 32, 32,
    32, 32, 32, 116, 101, 120, 116, 45, 116, 114, 97, 110, 115, 102, 111, 114,
    109, 58, 32, 117, 112, 112, 101, 114, 99, 97, 115, 101, 59, 10, 32, 32, 32,
    32, 32, 32, 32, 32, 32, 32, 32, 32, 108, 101, 116, 116, 101, 114, 45, 115,
    112, 97, 99, 105, 110, 103, 58, 32, 49, 112, 120, 59, 10, 32, 32, 32, 32,
    32, 32, 32, 32, 32, 32, 32, 32, 98, 111, 114, 100, 101, 114, 45, 98, 111,
    116, 116, 111, 109, 58, 32, 50, 112, 120, 32, 115, 111, 108, 105, 100, 32,
    35, 51, 52, 57, 56, 100, 98, 59, 10, 32, 32, 32, 32, 32, 32, 32, 32, 32, 32,
    32, 32, 112, 97, 100, 100, 105, 110, 103, 45, 98, 111, 116, 116, 111, 109,
    58, 32, 53, 112, 120, 59, 10, 32, 32, 32, 32, 32, 32, 32, 32, 32, 32, 32,
    32, 102, 111, 110, 116, 45, 119, 101, 105, 103, 104, 116, 58, 32, 54, 48,
    48, 59, 10, 32, 32, 32, 32, 32, 32, 32, 32, 32, 32, 125, 10, 32, 32, 32, 32,
    32, 32, 32, 32, 32, 32, 104, 51, 32, 123, 10, 32, 32, 32, 32, 32, 32, 32,
    32, 32, 32, 32, 32, 102, 111, 110, 116, 45, 115, 105, 122, 101, 58, 32, 49,
    54, 112, 120, 59, 10, 32, 32, 32, 32, 32, 32, 32, 32, 32, 32, 32, 32, 99,
    111, 108, 111, 114, 58, 32, 35, 51, 52, 52, 57, 53, 101, 59, 10, 32, 32, 32,
    32, 32, 32, 32, 32, 32, 32, 32, 32, 109, 97, 114, 103, 105, 110, 45, 116,
    111, 112, 58, 32, 50, 48, 112, 120, 59, 10, 32, 32, 32, 32, 32, 32, 32, 32,
    32, 32, 32, 32, 109, 97, 114, 103, 105, 110, 45, 98, 111, 116, 116, 111,
    109, 58, 32, 49, 48, 112, 120, 59, 10, 32, 32, 32, 32, 32, 32, 32, 32, 32,
    32, 32, 32, 102, 111, 110, 116, 45, 119, 101, 105, 103, 104, 116, 58, 32,
    54, 48, 48, 59, 10, 32, 32, 32, 32, 32, 32, 32, 32, 32, 32, 125, 10, 32, 32,
    32, 32, 32, 32, 32, 32, 32, 32, 117, 108, 44, 32, 111, 108, 32, 123, 32, 10,
    32, 32, 32, 32, 32, 32, 32, 32, 32, 32, 32, 32, 109, 97, 114, 103, 105, 110,
    58, 32, 49, 48, 112, 120, 32, 48, 59, 32, 10, 32, 32, 32, 32, 32, 32, 32,
    32, 32, 32, 32, 32, 112, 97, 100, 100, 105, 110, 103, 45, 108, 101, 102,
    116, 58, 32, 50, 53, 112, 120, 59, 32, 10, 32, 32, 32, 32, 32, 32, 32, 32,
    32, 32, 125, 10, 32, 32, 32, 32, 32, 32, 32, 32, 32, 32, 108, 105, 32, 123,
    32, 10, 32, 32, 32, 32, 32, 32, 32, 32, 32, 32, 32, 32, 109, 97, 114, 103,
    105, 110, 58, 32, 53, 112, 120, 32, 48, 59, 32, 10, 32, 32, 32, 32, 32, 32,
    32, 32, 32, 32, 125, 10, 32, 32, 32, 32, 32, 32, 32, 32, 32, 32, 115, 116,
    114, 111, 110, 103, 32, 123, 32, 10, 32, 32, 32, 32, 32, 32, 32, 32, 32, 32,
    32, 32, 99, 111, 108, 111, 114, 58, 32, 35, 50, 99, 51, 101, 53, 48, 59, 32,
    10, 32, 32, 32, 32, 32, 32, 32, 32, 32, 32, 32, 32, 102, 111, 110, 116, 45,
    119, 101, 105, 103, 104, 116, 58, 32, 54, 48, 48, 59, 32, 10, 32, 32, 32,
    32, 32, 32, 32, 32, 32, 32, 125, 10, 32, 32, 32, 32, 32, 32, 32, 32, 32, 32,
    46, 115, 101, 99, 116, 105, 111, 110, 32, 123, 10, 32, 32, 32, 32, 32, 32,
    32, 32, 32, 32, 32, 32, 109, 97, 114, 103, 105, 110, 45, 98, 111, 116, 116,
    111, 109, 58, 32, 50, 48, 112, 120, 59, 10, 32, 32, 32, 32, 32, 32, 32, 32,
    32, 32, 32, 32, 112, 97, 103, 101, 45, 98, 114, 101, 97, 107, 45, 105, 110,
    115, 105, 100, 101, 58, 32, 97, 118, 111, 105, 100, 59, 10, 32, 32, 32, 32,
    32, 32, 32, 32, 32, 32, 125, 10, 32, 32, 32, 32, 32, 32, 32, 32, 32, 32, 64,
    109, 101, 100, 105, 97, 32, 112, 114, 105, 110, 116, 32, 123, 10, 32, 32,
    32, 32, 32, 32, 32, 32, 32, 32, 32, 32, 98, 111, 100, 121, 32, 123, 32, 109,
    97, 114, 103, 105, 110, 58, 32, 48, 59, 32, 112, 97, 100, 100, 105, 110,
    103, 58, 32, 49, 53, 112, 120, 59, 32, 125, 10, 32, 32, 32, 32, 32, 32, 32,
    32, 32, 32, 32, 32, 104, 49, 44, 32, 104, 50, 44, 32, 104, 51, 32, 123, 32,
    112, 97, 103, 101, 45, 98, 114, 101, 97, 107, 45, 97, 102, 116, 101, 114,
    58, 32, 97, 118, 111, 105, 100, 59, 32, 125, 10, 32, 32, 32, 32, 32, 32, 32,
    32, 32, 32, 125, 10, 32, 32, 32, 32, 32, 32, 32, 32, 60, 47, 115, 116, 121,
    108, 101, 62, 10, 32, 32, 32, 32, 32, 32, 60, 47, 104, 101, 97, 100, 62, 10,
    32, 32, 32, 32, 32, 32, 60, 98, 111, 100, 121, 62, 10, 32, 32, 32, 32, 32,
    32, 32, 32, 60, 104, 49, 62>>

\* between the second ${title} and the content: '</h1>\n        <div>'
HtmlBodyHead ==
  <<60, 47, 104, 49, 62, 10, 32, 32, 32, 32, 32, 32, 32, 32, 60, 100, 105, 118,
    62>>

\* after the content: '</div>\n      </body>\n      </html>\n    '
HtmlTail ==
  <<60, 47, 100, 105, 118, 62, 10, 32, 32, 32, 32, 32, 32, 60, 47, 98, 111, 100,
    121, 62, 10, 32, 32, 32, 32, 32, 32, 60, 47, 104, 116, 109, 108, 62, 10, 32,
    32, 32, 32>>

\* What a template literal prints for undefined: 'undefined'
S_undefined ==
  <<117, 110, 100, 101, 102, 105, 110, 101, 100>>

\* The replacement of a line feed: '<br>'
S_br ==
  <<60, 98, 114, 62>>

\* The extension of the download: '.pdf'
S_pdf ==
  <<46, 112, 100, 102>>

\* The start of the Content-Disposition header: 'attachment; filename="'
S_attachment ==
  <<97, 116, 116, 97, 99, 104, 109, 101, 110, 116, 59, 32, 102, 105, 108, 101,
    110, 97, 109, 101, 61, 34>>

\* A title with a capital and a space: 'My CV'
TitleMyCv ==
  <<77, 121, 32, 67, 86>>

\* A title with a dash and a digit: 'cv-1'
TitleDashed ==
  <<99, 118, 45, 49>>

\* A content of two lines: 'A\nB\n'
ContentLines ==
  <<65, 10, 66, 10>>

\* A content of one word: 'x'
ContentWord ==
  <<120>>

RECURSIVE LineBreaks(_)
\* content.replace(/\n/g, '<br>')
LineBreaks(s) ==
  IF s = <<>> THEN <<>>
  ELSE (IF Head(s) = 10 THEN S_br ELSE <<Head(s)>>) \o LineBreaks(Tail(s))

\* What a template literal prints for a body field: the string, or
\* "undefined" when the field is absent.
Printed(field) == IF field = <<>> THEN S_undefined ELSE field[1]

\* title.replace(/[^a-z0-9]/gi, '_').toLowerCase()
SafeName(title) ==
  [i \in 1..Len(title) |->
     IF title[i] \in 97..122 \/ title[i] \in 48..57 THEN title[i]
     ELSE IF title[i] \in 65..90 THEN title[i] + 32
     ELSE 95]

\* const htmlContent of /api/download-pdf, for a body whose content is a
\* string.
HtmlContent(body) ==
  HtmlHead \o Printed(body.title) \o HtmlStyle \o Printed(body.title) \o
  HtmlBodyHead \o LineBreaks(body.content[1]) \o HtmlTail

\* The JSON bodies posted to /api/download-pdf: each of content and title is
\* absent or a string.
PdfBodies ==
  {[content |-> c, title |-> t] :
     c \in Field({<<>>, ContentLines, ContentWord}),
     t \in Field({<<>>, TitleMyCv, TitleDashed})}

\* res.status(500).json({ error: 'Failed to generate PDF' })
PdfFailed(p) ==
  [p EXCEPT !.pc = "done", !.status = 500, !.error = "Failed to generate PDF"]

\* A client posts a body to /api/download-pdf.
PdfPost ==
  /\ pdf.pc = "idle"
  /\ \E b \in PdfBodies : pdf' = [pdf EXCEPT !.pc = "build", !.body = b]
  /\ UNCHANGED <<pipeline, client, view>>

\* content is undefined: content.replace throws while the HTML is built, and
\* the catch answers 500; no browser was launched.
PdfBuildFails ==
  /\ pdf.pc = "build"
  /\ pdf.body.content = <<>>
  /\ pdf' = PdfFailed(pdf)
  /\ UNCHANGED <<pipeline, client, view>>

\* The HTML is built and puppeteer.launch gives a browser.
PdfLaunch ==
  /\ pdf.pc = "build"
  /\ pdf.body.content # <<>>
  /\ pdf' = [pdf EXCEPT !.pc = "newPage", !.browser = "running"]
  /\ UNCHANGED <<pipeline, client, view>>

\* puppeteer.launch is rejected: there is no browser, and the catch answers
\* 500.
PdfLaunchFails ==
  /\ pdf.pc = "build"
  /\ pdf.body.content # <<>>
  /\ pdf' = PdfFailed(pdf)
  /\ UNCHANGED <<pipeline, client, view>>

\* browser.newPage gives a page.
PdfNewPage ==
  /\ pdf.pc = "newPage"
  /\ pdf' = [pdf EXCEPT !.pc = "setContent", !.page = "blank"]
  /\ UNCHANGED <<pipeline, client, view>>

\* browser.newPage is rejected: the catch answers 500.
PdfNewPageFails ==
  /\ pdf.pc = "newPage"
  /\ pdf' = PdfFailed(pdf)
  /\ UNCHANGED <<pipeline, client, view>>

\* page.setContent(htmlContent) loads the HTML.
PdfSetContent ==
  /\ pdf.pc = "setContent"
  /\ pdf' = [pdf EXCEPT !.pc = "render", !.page = "loaded"]
  /\ UNCHANGED <<pipeline, client, view>>

\* page.setContent is rejected: the catch answers 500.
PdfSetContentFails ==
  /\ pdf.pc = "setContent"
  /\ pdf' = PdfFailed(pdf)
  /\ UNCHANGED <<pipeline, client, view>>

\* page.pdf gives the buffer of the rendered HTML.
PdfRender ==
  /\ pdf.pc = "render"
  /\ pdf' = [pdf EXCEPT !.pc = "close", !.pdfBuffer = HtmlContent(pdf.body)]
  /\ UNCHANGED <<pipeline, client, view>>

\* page.pdf is rejected: the catch answers 500.
PdfRenderFails ==
  /\ pdf.pc = "render"
  /\ pdf' = PdfFailed(pdf)
  /\ UNCHANGED <<pipeline, client, view>>

\* browser.close()
PdfClose ==
  /\ pdf.pc = "close"
  /\ pdf' = [pdf EXCEPT !.pc = "send", !.browser = "closed", !.page = "none"]
  /\ UNCHANGED <<pipeline, client, view>>

\* The headers are set and the buffer is sent; title.replace throws when
\* title is undefined, and the catch answers 500.
PdfSend ==
  /\ pdf.pc = "send"
  /\ pdf' = IF pdf.body.title = <<>> THEN PdfFailed(pdf)
            ELSE [pdf EXCEPT
                    !.pc = "done", !.status = 200,
                    !.disposition = S_attachment \o SafeName(pdf.body.title[1])
                                      \o S_pdf \o <<34>>,
                    !.sent = pdf.pdfBuffer]
  /\ UNCHANGED <<pipeline, client, view>>

NextPdf ==
  \/ PdfPost
  \/ PdfBuildFails
  \/ PdfLaunch
  \/ PdfLaunchFails
  \/ PdfNewPage
  \/ PdfNewPageFails
  \/ PdfSetContent
  \/ PdfSetContentFails
  \/ PdfRender
  \/ PdfRenderFails
  \/ PdfClose
  \/ PdfSend

SpecPdf == Init /\ [][NextPdf]_vars

----------------------------------------------------------------------------
(* The client: App, CVRanking and CVGeneration.  A user event, the render  *)
(* that follows it and the effects of that render are one step; so is the  *)
(* arrival of an answer.  Both forms stay mounted; the user reaches only   *)
(* the form that currentMode shows.                                        *)

\* What the user types into a job description: nothing, a space, "J", "K".
Texts == {<<>>, <<32>>, <<74>>, <<75>>}

\* What the user types into the additional data: nothing or "A".
AdditionalTexts == {<<>>, <<65>>}

\* What a file input holds after a change: no file, or the file "f".
FileInputs == {<<>>, <<<<102>>>>}

IsSpace(c) == c \in {9, 10, 11, 12, 13, 32}

RECURSIVE TrimStart(_)
TrimStart(s) ==
  IF s # <<>> /\ IsSpace(Head(s)) THEN TrimStart(Tail(s)) ELSE s

RECURSIVE TrimEnd(_)
TrimEnd(s) ==
  IF s # <<>> /\ IsSpace(s[Len(s)]) THEN TrimEnd(SubSeq(s, 1, Len(s) - 1)) ELSE s

\* String.prototype.trim
Trim(s) == TrimEnd(TrimStart(s))

\* A ranking of a file name with a score.
Ranking(name, score) == [filename |-> name, score |-> score]

\* The rankings lists an answer of /api/rank-cvs carries: none, one, two.
RankLists ==
  {<<>>, <<Ranking(<<97>>, 50)>>, <<Ranking(<<97>>, 50), Ranking(<<98>>, 90)>>}

\* How a request to /api/rank-cvs ends: success true with rankings, success
\* false, or a rejected request (a network error or an error status).
RankAnswers ==
  {[kind |-> "ok", rankings |-> l] : l \in RankLists}
  \cup {[kind |-> k, rankings |-> <<>>] : k \in {"notSuccess", "failed"}}

\* A generated CV as the answer of /api/generate-cvs number id carries it:
\* its content tells it from every other CV.
NewCv(id, i) ==
  [title |-> <<id, i>>, content |-> <<id, i>>, isRanking |-> FALSE,
   rankingResult |-> <<>>]

\* How a request to /api/generate-cvs ends.
GenAnswers(id) ==
  {[kind |-> "ok", cvs |-> [i \in 1..k |-> NewCv(id, i)]] : k \in 0..MaxGenerated}
  \cup {[kind |-> k, cvs |-> <<>>] : k \in {"notSuccess", "failed"}}

\* err.message of a rejected axios request.
AxiosMessage == "Request failed"

\* A request in flight: who sent it and the form data it carries.
Request(id, from) ==
  [id |-> id, from |-> from, cvIndex |-> 0, cvs |-> <<>>, jobDescription |-> <<>>,
   file |-> <<>>, numberOfCVs |-> 0, additionalData |-> <<>>]

\* The condition of the auto-rank effect.
AutoRankWanted(a) ==
  a.shouldAutoRank /\ Len(a.generatedCVs) > 0 /\ Trim(a.jobDescription) # <<>>

\* The auto-rank effect runs after a render that changed one of its
\* dependencies, and calls handleAutoRank under its condition.
EffectFires(before, after) ==
  /\ <<before.shouldAutoRank, before.generatedCVs, before.jobDescription>> #
       <<after.shouldAutoRank, after.generatedCVs, after.jobDescription>>
  /\ AutoRankWanted(after)

\* The form data handleAutoRank sends: the generated CVs as text files and
\* the shared job description.
AutoRankRequest(id, a) ==
  [Request(id, "handleAutoRank") EXCEPT
     !.cvs = [i \in 1..Len(a.generatedCVs) |-> a.generatedCVs[i].content],
     !.jobDescription = a.jobDescription]

\* The render after a step that leaves App in state a, CVRanking in r,
\* CVGeneration in g and the requests n, c in flight and sent: the effect,
\* when it fires, copies the job description into the text area and runs
\* handleAutoRank up to its await.
Commit(a, r, g, n, c) ==
  LET fires == EffectFires(app, a) IN
  /\ fires => c < MaxRequests
  /\ app' = IF fires THEN [a EXCEPT !.sentAuto = @ + 1] ELSE a
  /\ rk' = IF fires
             THEN [r EXCEPT !.jobDescriptionText = a.jobDescription,
                            !.isLoading = TRUE, !.error = "", !.results = <<>>,
                            !.resultsOf = 0]
             ELSE r
  /\ gn' = g
  /\ net' = IF fires THEN n \cup {AutoRankRequest(c + 1, a)} ELSE n
  /\ issued' = IF fires THEN c + 1 ELSE c
  /\ UNCHANGED <<pipeline, pdf, view>>

\* A click on 'CV Ranking' or 'CV Generation' of the mode selector.
SelectMode ==
  \E m \in {"ranking", "generation"} :
    /\ m # app.currentMode
    /\ Commit([app EXCEPT !.currentMode = m], rk, gn, net, issued)

\* CVRanking: handleCVChange.
RkChooseCvs ==
  /\ app.currentMode = "ranking"
  /\ \E f \in FileInputs : Commit(app, [rk EXCEPT !.cvs = f], gn, net, issued)

\* CVRanking: handleJobDescriptionFileChange.
RkChooseJobFile ==
  /\ app.currentMode = "ranking"
  /\ \E f \in FileInputs :
       Commit(app,
              [rk EXCEPT !.jobDescriptionFile = f,
                         !.jobDescriptionText = IF f # <<>> THEN <<>> ELSE @],
              gn, net, issued)

\* CVRanking: handleJobDescriptionTextChange.
RkTypeJob ==
  /\ app.currentMode = "ranking"
  /\ \E value \in Texts \ {rk.jobDescriptionText} :
       Commit([app EXCEPT !.jobDescription = value],
              [rk EXCEPT !.jobDescriptionText = value,
                         !.jobDescriptionFile = IF value # <<>> THEN <<>> ELSE @],
              gn, net, issued)

\* CVRanking: handleSubmit, up to its await; the button is disabled while
\* isLoading.
RkSubmit ==
  /\ app.currentMode = "ranking"
  /\ ~rk.isLoading
  /\ IF rk.cvs = <<>>
       THEN Commit(app, [rk EXCEPT !.error = "Please select at least one CV file"],
                   gn, net, issued)
     ELSE IF rk.jobDescriptionFile = <<>> /\ Trim(rk.jobDescriptionText) = <<>>
       THEN Commit(app, [rk EXCEPT !.error = "Please provide a job description"],
                   gn, net, issued)
     ELSE /\ issued < MaxRequests
          /\ Commit(app,
                    [rk EXCEPT !.isLoading = TRUE, !.error = "", !.results = <<>>,
                               !.resultsOf = 0],
                    gn,
                    net \cup {[Request(issued + 1, "handleSubmit") EXCEPT
                                 !.cvs = rk.cvs,
                                 !.file = rk.jobDescriptionFile,
                                 !.jobDescription =
                                    IF rk.jobDescriptionFile # <<>> THEN <<>>
                                    ELSE rk.jobDescriptionText]},
                    issued + 1)

\* CVRanking: resetForm.
RkReset ==
  /\ app.currentMode = "ranking"
  /\ Commit([app EXCEPT !.jobDescription = <<>>],
            [rk EXCEPT !.cvs = <<>>, !.jobDescriptionFile = <<>>,
                       !.jobDescriptionText = <<>>, !.results = <<>>,
                       !.error = "", !.resultsOf = 0],
            gn, net, issued)

\* CVRanking: what follows the await of handleSubmit and of handleAutoRank
\* in the form: the results or the error, and finally isLoading false.
RkAfterAwait(q, answer) ==
  [rk EXCEPT
     !.results = IF answer.kind = "ok" THEN answer.rankings ELSE @,
     !.resultsOf = IF answer.kind = "ok" THEN q.id ELSE @,
     !.error = IF answer.kind = "notSuccess" THEN "Failed to rank CVs"
               ELSE IF answer.kind = "failed"
                 THEN "Error ranking CVs: " \o AxiosMessage
               ELSE @,
     !.isLoading = FALSE]

\* The request of handleSubmit ends.
RkSubmitAnswers ==
  \E q \in {x \in net : x.from = "handleSubmit"} :
    \E answer \in RankAnswers :
      Commit(app, RkAfterAwait(q, answer), gn, net \ {q}, issued)

\* The request of handleAutoRank ends; on success onAutoRankComplete is
\* called.
RkAutoAnswers ==
  \E q \in {x \in net : x.from = "handleAutoRank"} :
    \E answer \in RankAnswers :
      Commit([app EXCEPT !.shouldAutoRank = IF answer.kind = "ok" THEN FALSE ELSE @],
             RkAfterAwait(q, answer), gn, net \ {q}, issued)

\* What the user enters as the number of CVs.
NumberInputs == {0, 1, 2}

\* CVGeneration: handleJobDescriptionChange.
GnTypeJob ==
  /\ app.currentMode = "generation"
  /\ \E value \in Texts \ {gn.jobDescription} :
       Commit([app EXCEPT !.jobDescription = value], rk,
              [gn EXCEPT !.jobDescription = value], net, issued)

\* CVGeneration: handleNumberOfCVsChange.
GnSetNumber ==
  /\ app.currentMode = "generation"
  /\ \E value \in NumberInputs :
       Commit(app, rk,
              [gn EXCEPT !.numberOfCVs = IF value > 0 THEN value ELSE @],
              net, issued)

\* CVGeneration: handleAdditionalDataChange.
GnTypeAdditional ==
  /\ app.currentMode = "generation"
  /\ \E value \in AdditionalTexts \ {gn.additionalData} :
       Commit(app, rk, [gn EXCEPT !.additionalData = value], net, issued)

\* CVGeneration: handleBaseDataFileChange.
GnChooseBaseFile ==
  /\ app.currentMode = "generation"
  /\ \E f \in FileInputs :
       Commit(app, rk, [gn EXCEPT !.baseDataFile = f], net, issued)

\* CVGeneration: handleSubmit, up to its await; the button is disabled
\* while isLoading.
GnSubmit ==
  /\ app.currentMode = "generation"
  /\ ~gn.isLoading
  /\ IF Trim(gn.jobDescription) = <<>>
       THEN Commit(app, rk, [gn EXCEPT !.error = "Please enter a job description"],
                   net, issued)
     ELSE IF gn.numberOfCVs < 1
       THEN Commit(app, rk, [gn EXCEPT !.error = "Number of CVs must be at least 1"],
                   net, issued)
     ELSE /\ issued < MaxRequests
          /\ Commit(app, rk,
                    [gn EXCEPT !.isLoading = TRUE, !.error = "", !.generatedCVs = <<>>],
                    net \cup {[Request(issued + 1, "generate") EXCEPT
                                 !.jobDescription = gn.jobDescription,
                                 !.numberOfCVs = gn.numberOfCVs,
                                 !.additionalData = gn.additionalData,
                                 !.file = gn.baseDataFile]},
                    issued + 1)

\* The request of CVGeneration's handleSubmit ends.
GnGenerateAnswers ==
  \E q \in {x \in net : x.from = "generate"} :
    \E answer \in GenAnswers(q.id) :
      Commit([app EXCEPT !.generatedCVs = IF answer.kind = "ok" THEN answer.cvs ELSE @],
             rk,
             [gn EXCEPT
                !.generatedCVs = IF answer.kind = "ok" THEN answer.cvs ELSE @,
                !.error = IF answer.kind = "notSuccess" THEN "Failed to generate CVs"
                          ELSE IF answer.kind = "failed" THEN AxiosMessage
                          ELSE @,
                !.isLoading = FALSE],
             net \ {q}, issued)

\* prev.map((cv, index) => index === cvIndex ? change(cv) : cv)
MapAt(prev, cvIndex, change(_)) ==
  [index \in 1..Len(prev) |->
     IF index = cvIndex THEN change(prev[index]) ELSE prev[index]]

\* CVGeneration: rankSingleCV, up to its await; the button of a CV is
\* disabled while the CV isRanking.
GnRankSingle ==
  /\ app.currentMode = "generation"
  /\ \E cvIndex \in 1..Len(gn.generatedCVs) :
       /\ ~gn.generatedCVs[cvIndex].isRanking
       /\ IF Trim(gn.jobDescription) = <<>>
            THEN Commit(app, rk,
                        [gn EXCEPT !.error = "Job description is required for ranking"],
                        net, issued)
          ELSE /\ issued < MaxRequests
               /\ LET ranking(cv) == [cv EXCEPT !.isRanking = TRUE] IN
                  Commit(app, rk,
                         [gn EXCEPT !.generatedCVs = MapAt(@, cvIndex, ranking)],
                         net \cup {[Request(issued + 1, "rankSingleCV") EXCEPT
                                      !.cvIndex = cvIndex,
                                      !.cvs = <<gn.generatedCVs[cvIndex].content>>,
                                      !.jobDescription = gn.jobDescription]},
                         issued + 1)

\* The request of rankSingleCV ends: the first ranking is attached to the
\* CV at cvIndex of the list the form holds then; a rejected request ends
\* the CV's isRanking with an error; any other answer changes nothing.
\* The field 'of' of a stored result is history: the content the request sent.
GnSingleAnswers ==
  \E q \in {x \in net : x.from = "rankSingleCV"} :
    \E answer \in RankAnswers :
      LET ranked(cv) ==
            [cv EXCEPT !.isRanking = FALSE,
                       !.rankingResult =
                          <<[score |-> answer.rankings[1].score, of |-> q.cvs[1]]>>]
          stopped(cv) == [cv EXCEPT !.isRanking = FALSE]
      IN  Commit(app, rk,
                 IF answer.kind = "ok" /\ Len(answer.rankings) > 0
                   THEN [gn EXCEPT !.generatedCVs = MapAt(@, q.cvIndex, ranked)]
                 ELSE IF answer.kind = "failed"
                   THEN [gn EXCEPT !.generatedCVs = MapAt(@, q.cvIndex, stopped),
                                   !.error = "Failed to rank CV: " \o AxiosMessage]
                 ELSE gn,
                 net \ {q}, issued)

\* CVGeneration: rankAllGeneratedCVs and App's handleRankAllGeneratedCVs;
\* the button shows while the form holds generated CVs.
GnRankAll ==
  /\ app.currentMode = "generation"
  /\ Len(gn.generatedCVs) > 0
  /\ IF Trim(gn.jobDescription) = <<>>
       THEN Commit(app, rk,
                   [gn EXCEPT !.error = "Job description is required for ranking"],
                   net, issued)
     ELSE Commit([app EXCEPT !.shouldAutoRank = TRUE, !.currentMode = "ranking",
                             !.sentAuto = IF app.shouldAutoRank THEN @ ELSE 0],
                 rk, gn, net, issued)

\* CVGeneration: resetForm.
GnReset ==
  /\ app.currentMode = "generation"
  /\ Commit([app EXCEPT !.jobDescription = <<>>, !.generatedCVs = <<>>], rk,
            [gn EXCEPT !.jobDescription = <<>>, !.numberOfCVs = 2,
                       !.additionalData = <<>>, !.baseDataFile = <<>>,
                       !.generatedCVs = <<>>, !.error = ""],
            net, issued)

\* The ranking form, with the part of the generation form that leads to an
\* auto-rank: typing its job description, generating, 'Rank Generated'.
NextRanking ==
  \/ SelectMode
  \/ RkChooseCvs
  \/ RkChooseJobFile
  \/ RkTypeJob
  \/ RkSubmit
  \/ RkReset
  \/ RkSubmitAnswers
  \/ RkAutoAnswers
  \/ GnTypeJob
  \/ GnSubmit
  \/ GnGenerateAnswers
  \/ GnRankAll

SpecRanking == Init /\ [][NextRanking]_vars

\* The generation form on its own: its inputs, generating, ranking single
\* CVs, resetting.
NextGeneration ==
  \/ SelectMode
  \/ GnTypeJob
  \/ GnSetNumber
  \/ GnTypeAdditional
  \/ GnChooseBaseFile
  \/ GnSubmit
  \/ GnGenerateAnswers
  \/ GnRankSingle
  \/ GnSingleAnswers
  \/ GnReset

SpecGeneration == Init /\ [][NextGeneration]_vars

----------------------------------------------------------------------------
(* Rendering the ranking results: the component as it stands sorts a copy   *)
(* inside useMemo; its earlier version sorts the state array in the JSX.    *)

\* The rankings an answer may carry, for the rendering.
ScoredRankings == {Ranking(name, score) : name \in {<<97>>, <<98>>}, score \in {50, 90}}

\* (a, b) => b.score - a.score
CompareScore(a, b) == b.score - a.score

\* One step of a stable sort: x goes behind every element the comparator
\* does not put behind it.
RECURSIVE InsertSorted(_, _)
InsertSorted(sorted, x) ==
  IF sorted = <<>> THEN <<x>>
  ELSE IF CompareScore(Head(sorted), x) <= 0
    THEN <<Head(sorted)>> \o InsertSorted(Tail(sorted), x)
  ELSE <<x>> \o sorted

\* Array.prototype.sort with the comparator above: stable, as the language
\* requires.
RECURSIVE SortByScore(_)
SortByScore(list) ==
  IF list = <<>> THEN <<>>
  ELSE InsertSorted(SortByScore(SubSeq(list, 1, Len(list) - 1)), list[Len(list)])

\* A render is due for a list the server returned, in either version of the
\* component.
InitRender ==
  /\ now = 0 /\ disk = <<>> /\ pc = "idle"
  /\ req = NoRequest /\ files = NoFiles /\ locals = NoLocals
  /\ completion = NoCompletion /\ resp = NoResponse
  /\ written = {} /\ unlinked = {} /\ extracted = 0 /\ modelCalls = 0
  /\ call = NoCall
  /\ pdf = NoPdfCall /\ ClientIdle
  /\ \E version \in {"memo", "inline"} :
       \E list \in SeqsUpTo(ScoredRankings, MaxResults) :
         view = [version |-> version, results |-> list, given |-> list,
                 shown |-> <<>>, rendered |-> FALSE]

\* sortedResults = useMemo(() => [...results].sort(...), [results]), then
\* sortedResults.map(...) in the JSX.
RenderMemo ==
  /\ view.version = "memo"
  /\ ~view.rendered
  /\ view' = [view EXCEPT !.shown = SortByScore(view.results), !.rendered = TRUE]
  /\ UNCHANGED <<pipeline, pdf, client>>

\* results.sort(...).map(...) in the JSX: sort works in place on the array
\* the state holds and returns that array.
RenderInline ==
  /\ view.version = "inline"
  /\ ~view.rendered
  /\ view' = [view EXCEPT !.results = SortByScore(@),
                          !.shown = SortByScore(view.results),
                          !.rendered = TRUE]
  /\ UNCHANGED <<pipeline, pdf, client>>

NextRender ==
  \/ RenderMemo
  \/ RenderInline

SpecRender == InitRender /\ [][NextRender]_vars

----------------------------------------------------------------------------
(* Vocabulary of the properties. *)

\* The request was answered.
Answered == pc = "done"

\* The files the upload middleware handed to the handler.
HandedFiles == files.cvs \o files.jobDescription \o files.baseData

\* The submission holds a file whose declared type is not on the allow-list.
HasDisallowedFile ==
  \E i \in 1..Len(req.parts) : req.parts[i].file.mimetype \notin AllowedTypes

\* The original names of the submitted cvs files.
SubmittedCvNames ==
  {req.parts[i].file.originalname :
     i \in {j \in 1..Len(req.parts) : req.parts[j].field = "cvs"}}

SubmittedCvCount ==
  Cardinality({j \in 1..Len(req.parts) : req.parts[j].field = "cvs"})

\* The value is an object with an array under the key.
HasList(v, key) ==
  /\ v.t = "obj"
  /\ key \in DOMAIN v.o
  /\ v.o[key].t = "arr"

\* The object has a non-empty string under the key.
HasText(v, key) ==
  /\ v.t = "obj"
  /\ key \in DOMAIN v.o
  /\ v.o[key].t = "str"
  /\ v.o[key].s # <<>>

RankingKeys ==
  {K_filename, K_candidateName, K_phone, K_email, K_score, K_explanation,
   K_advantages, K_disadvantages}

\* data.rankings lists the submitted CV files one to one: as many records
\* as files, and the same set of file names.
OneToOne(data) ==
  /\ HasList(data, K_rankings)
  /\ LET r == data.o[K_rankings].a IN
       /\ Len(r) = SubmittedCvCount
       /\ \A i \in 1..Len(r) : HasText(r[i], K_filename)
       /\ {r[i].o[K_filename].s : i \in 1..Len(r)} = SubmittedCvNames

\* data.cvs holds n documents, each with a non-empty title and content.
NDocuments(data, n) ==
  /\ HasList(data, K_cvs)
  /\ LET c == data.o[K_cvs].a IN
       /\ Len(c) = n
       /\ \A i \in 1..Len(c) : HasText(c[i], K_title) /\ HasText(c[i], K_content)

\* The string is a decimal numeral.
IsNumeral(s) == s # <<>> /\ \A i \in 1..Len(s) : IsDigit(s[i])

----------------------------------------------------------------------------
(* Properties. *)

\* C1: when a /api/rank-cvs request whose files were stored is answered,
\* fs.unlinkSync was called on every stored file of the request, whatever
\* the answer is (200, 400 or 500).
C1_CleanupOnEveryExit ==
  (Answered /\ req.route = "rank" /\ resp.kind # "unhandled") =>
    \A i \in 1..Len(HandedFiles) : HandedFiles[i].path \in unlinked

\* C2: when the model call of a /api/rank-cvs request gave a text, the
\* answer is 200 with success true and every stored file was handed to
\* fs.unlinkSync, also when one of the unlinks failed.
C2_CleanupFailureNotEscalated ==
  (Answered /\ req.route = "rank" /\ completion.kind = "text") =>
    /\ resp.status = 200
    /\ resp.kind \in {"parsed", "fallback"}
    /\ \A i \in 1..Len(HandedFiles) : HandedFiles[i].path \in unlinked

\* C3: no request whose files passed the upload filter is answered with the
\* 'Unsupported file type' error of extractTextFromFile.
C3_AllowedTypesAreSupported ==
  (Answered /\ resp.kind = "error") => resp.error[2] # "Unsupported file type"

\* C4: a submission that holds a file of a type outside the allow-list is
\* answered with status 400.
C4_InvalidFileTypeIs400 ==
  (Answered /\ HasDisallowedFile) => resp.status = 400

\* C5: no file of a type outside the allow-list is ever handed to the disk
\* storage or found in the upload directory, and a request that holds such
\* a file reaches neither text extraction nor the model call.
C5_DisallowedNeverStored ==
  /\ \A f \in written : f.mimetype \in AllowedTypes
  /\ \A p \in DOMAIN disk : disk[p].mimetype \in AllowedTypes
  /\ HasDisallowedFile =>
       /\ pc \in {"idle", "upload", "done"}
       /\ extracted = 0
       /\ modelCalls = 0

\* C5 happens: a submission with a disallowed file was answered after an
\* earlier, allowed file of it had been written.
C5_Witness ==
  /\ Answered
  /\ HasDisallowedFile
  /\ written # {}
  /\ resp.kind = "unhandled"

\* C6: when the model's text does not parse after cleaning, /api/rank-cvs
\* answers 200 with success true and exactly one fallback record: score 0,
\* the parse-failure explanation, no advantages and no disadvantages.
C6_ParseFailureAnswersFallback ==
  (/\ Answered
   /\ req.route = "rank"
   /\ completion.kind = "text"
   /\ ~JSONParse(Clean(completion.content)).ok) =>
    /\ resp.status = 200
    /\ resp.kind = "fallback"
    /\ HasList(resp.data, K_rankings)
    /\ LET r == resp.data.o[K_rankings].a IN
         /\ Len(r) = 1
         /\ r[1].o[K_score] = JNum(0)
         /\ r[1].o[K_explanation] = JStr(FallbackExplanation)
         /\ r[1].o[K_advantages] = JArr(<<>>)
         /\ r[1].o[K_disadvantages] = JArr(<<>>)

\* C7: every record of data.rankings in a 200 answer of /api/rank-cvs has
\* all eight fields of a RankingRecord.
C7_RecordsComplete ==
  (Answered /\ req.route = "rank" /\ resp.status = 200
   /\ HasList(resp.data, K_rankings)) =>
    LET r == resp.data.o[K_rankings].a IN
      \A i \in 1..Len(r) : r[i].t = "obj" /\ RankingKeys \subseteq DOMAIN r[i].o

\* C8, as claimed: in every 200 answer of /api/rank-cvs that is not the
\* fallback, data.rankings lists the submitted CV files one to one.
C8_OneToOneForAnyText ==
  (Answered /\ req.route = "rank" /\ resp.kind = "parsed") => OneToOne(resp.data)

\* C8, amended: in every 200 answer of /api/rank-cvs that is not the
\* fallback, data is the value the model's cleaned text parses to, so that
\* data.rankings lists the submitted CV files one to one exactly when the
\* model's text does.
C8_OneToOneWhenModelListsThem ==
  (Answered /\ req.route = "rank" /\ resp.kind = "parsed") =>
    LET listed == JSONParse(Clean(completion.content)).val IN
      /\ resp.data = listed
      /\ OneToOne(resp.data) <=> OneToOne(listed)

\* C8 happens: two CV files were submitted and the answer lists both.
C8_Witness ==
  /\ Answered
  /\ req.route = "rank"
  /\ resp.kind = "parsed"
  /\ SubmittedCvCount = 2
  /\ OneToOne(resp.data)

\* C9, as claimed: every 200 answer of /api/generate-cvs holds numCVs
\* documents in data.cvs, each with a non-empty title and content.
C9_NDocumentsForAnyText ==
  (Answered /\ req.route = "gen" /\ resp.status = 200) =>
    NDocuments(resp.data, locals.numCVs.val)

\* C9, amended: a 200 answer of /api/generate-cvs holds numCVs documents
\* with non-empty titles and contents whenever the model's cleaned text
\* parses to such a list; when the text does not parse, data.cvs is exactly
\* one document titled 'Generated CV' whose content is the cleaned text.
C9_NDocumentsWhenModelGivesThem ==
  (Answered /\ req.route = "gen" /\ resp.status = 200) =>
    LET parsed == JSONParse(Clean(completion.content)) IN
      IF parsed.ok
        THEN NDocuments(parsed.val, locals.numCVs.val) =>
               NDocuments(resp.data, locals.numCVs.val)
        ELSE /\ HasList(resp.data, K_cvs)
             /\ Len(resp.data.o[K_cvs].a) = 1
             /\ resp.data.o[K_cvs].a[1] =
                  JObj((K_title :> JStr(FallbackTitle)) @@
                       (K_content :> JStr(Clean(completion.content))))

\* C9 happens: the model gave the one document asked for, after control
\* characters were removed from its text.
C9_Witness ==
  /\ Answered
  /\ req.route = "gen"
  /\ resp.kind = "parsed"
  /\ completion.content # Clean(completion.content)
  /\ NDocuments(resp.data, locals.numCVs.val)

\* C10: /api/generate-cvs calls the model only when numberOfCVs is a
\* decimal numeral of an integer in 1..10.
C10_CountWithin1To10 ==
  (req.route = "gen" /\ modelCalls > 0) =>
    /\ req.body.numberOfCVs # <<>>
    /\ IsNumeral(req.body.numberOfCVs[1])
    /\ DecimalValue(req.body.numberOfCVs[1], 1, Len(req.body.numberOfCVs[1])) \in 1..10

\* The submission has no file in the field.
NoPart(field) == \A i \in 1..Len(req.parts) : req.parts[i].field # field

\* C11: an answered /api/rank-cvs request whose submission has no cvs file
\* or no jobDescription file was answered 400 with no extraction and no
\* model call; an answered /api/generate-cvs request whose jobDescription
\* text is absent or empty was answered 400 with no model call.
C11_MissingInputIs400 ==
  Answered =>
    /\ (req.route = "rank" /\ (NoPart("cvs") \/ NoPart("jobDescription"))) =>
         resp.status = 400 /\ extracted = 0 /\ modelCalls = 0
    /\ (req.route = "gen" /\ Falsy(req.body.jobDescription)) =>
         resp.status = 400 /\ modelCalls = 0

\* C12: when a /api/generate-cvs request that stored a baseData file is
\* answered, fs.unlinkSync was called on the path of that file.
C12_BaseDataDeletedOnEveryExit ==
  (Answered /\ req.route = "gen") =>
    \A i \in 1..Len(files.baseData) : files.baseData[i].path \in unlinked

\* C13: any two files the upload middleware stored for the handler got
\* distinct storage paths.
C13_StoragePathsDistinct ==
  \A i, j \in 1..Len(HandedFiles) :
    i # j => HandedFiles[i].path # HandedFiles[j].path

SubmittedCvs ==
  LET parts == SelectSeq(req.parts, LAMBDA p : p.field = "cvs")
  IN  [i \in 1..Len(parts) |-> parts[i].file]

\* C15: the prompt /api/rank-cvs sent to the model lists every submitted CV
\* exactly once, in submission order: the i-th entry is labeled with the
\* ordinal i and the original filename of the i-th submitted file and holds
\* the whole text of that file, followed by the delimiter.
C15_PayloadListsEveryCv ==
  (req.route = "rank" /\ modelCalls > 0) =>
    locals.prompt =
      RankPrompt(locals.jobDescText,
                 [i \in 1..Len(SubmittedCvs) |->
                    [filename |-> SubmittedCvs[i].originalname,
                     text |-> TextOf(SubmittedCvs[i])]])

\* The media types extractTextFromFile supports: PDF, DOCX and plain text.
SupportedTypes == {Pdf, Docx, Txt}

\* C16: a call of extractTextFromFile with a media type other than the
\* supported ones ends in an error: it returns no text, whatever the path
\* holds.
C16_UnsupportedTypeThrows ==
  (call.state = "settled" /\ call.mimetype \notin SupportedTypes) =>
    ~call.outcome.ok

\* A call with application/msword on a stored file has thrown.
C16_Witness ==
  /\ call.state = "settled"
  /\ call.mimetype = Doc
  /\ call.filePath \in DOMAIN disk
  /\ ~call.outcome.ok
  /\ call.outcome.message = "Unsupported file type"

\* The text without its characters of codes 0 to 31 and 127.
Stripped(text) == SelectSeq(text, LAMBDA c : c > 31 /\ c # 127)

C18_FallbackHoldsRawText ==
  (Answered /\ req.route = "gen" /\ completion.kind = "text"
     /\ resp.kind # "parsed") =>
    /\ resp.status = 200
    /\ HasList(resp.data, K_cvs)
    /\ Len(resp.data.o[K_cvs].a) = 1
    /\ resp.data.o[K_cvs].a[1].o[K_content] = JStr(completion.content)

\* C19: /api/rank-cvs never holds more than 10 CV texts, and a submission
\* with more than 10 files in the cvs field is refused by the upload
\* middleware: no extraction and no model call is made for it.
C19_AtMostTenCvs ==
  req.route = "rank" =>
    /\ Len(locals.cvTexts) <= 10
    /\ SubmittedCvCount > 10 =>
         /\ pc \in {"upload", "done"}
         /\ extracted = 0 /\ modelCalls = 0
         /\ locals.prompt = <<>>
         /\ Answered => resp.kind = "unhandled" /\ resp.status >= 400

\* A submission of 11 files of an allowed type was refused.
C19_Witness ==
  /\ Answered /\ req.route = "rank"
  /\ SubmittedCvCount = 11
  /\ ~HasDisallowedFile
  /\ resp.kind = "unhandled"
  /\ resp.error[2] = "Unexpected field"
  /\ extracted = 0 /\ modelCalls = 0

\* The stored file cannot be extracted from the upload directory as it is:
\* its declared type is not a supported one, or the bytes under its path are
\* not a well-formed document of the declared PDF or DOCX type.
Unextractable(f) ==
  \/ f.mimetype \notin SupportedTypes
  \/ f.mimetype # Txt /\ disk[f.path].mimetype # f.mimetype
  \/ f.mimetype # Txt /\ ~disk[f.path].wellFormed

\* C20: in /api/rank-cvs the model is called only once the job description
\* and every CV were extracted, each extraction having succeeded; when an
\* extraction throws, the request is answered 500 with the message of the
\* error, no model call is made, and no file after the failing one is
\* extracted.
C20_ModelOnlyAfterEveryExtraction ==
  (req.route = "rank" /\ pc \in {"model", "done"} /\ resp.kind # "unhandled"
     /\ files.cvs # <<>> /\ files.jobDescription # <<>>) =>
    LET order == <<files.jobDescription[1]>> \o files.cvs IN
    IF modelCalls > 0
      THEN /\ extracted = Len(order)
           /\ Len(locals.cvTexts) = Len(files.cvs)
           /\ pc = "model" => \A i \in 1..Len(order) : ~Unextractable(order[i])
      ELSE LET failed == {i \in 1..Len(order) : Unextractable(order[i])} IN
           /\ failed # {}
           /\ Answered
           /\ resp.status = 500
           /\ resp.error[1] = "Failed to rank CVs: "
           /\ extracted \in failed
           /\ resp.error[2] =
                IF order[extracted].mimetype \notin SupportedTypes
                  THEN "Unsupported file type" ELSE "parse error"
           /\ \A i \in failed : extracted <= i
           /\ locals.prompt = <<>>

\* The extraction of the first of two CVs threw: the answer is 500, the
\* second CV was not extracted and the model was not called.
C20_Witness ==
  /\ Answered /\ req.route = "rank"
  /\ Len(files.cvs) = 2 /\ Len(files.jobDescription) = 1
  /\ extracted = 2
  /\ modelCalls = 0
  /\ resp.status = 500
  /\ resp.error = <<"Failed to rank CVs: ", "parse error">>

\* C21: a request calls the model at most once and calls extractTextFromFile
\* at most once per stored file; a failed model call or a failed extraction
\* is followed by nothing but the 500 answer: no second call, no second
\* extraction.
C21_NoRetry ==
  req.route \in {"rank", "gen"} =>
    /\ modelCalls <= 1
    /\ extracted <= Len(HandedFiles)
    /\ completion.kind \in {"rejected", "null"} =>
         Answered /\ resp.status = 500 /\ resp.kind = "error" /\ modelCalls = 1
    /\ (pc \in {"model", "done"} /\ extracted > 0 /\ modelCalls = 0) =>
         Answered /\ resp.status = 500 /\ resp.kind = "error"

\* A rejected model call ended a request of three stored files with 500,
\* after one call and three extractions.
C21_Witness ==
  /\ Answered /\ req.route = "rank"
  /\ completion.kind = "rejected"
  /\ modelCalls = 1
  /\ Len(HandedFiles) = 3 /\ extracted = 3
  /\ resp.status = 500

\* C22: when a POST /api/download-pdf call has answered, the browser it
\* launched is closed: no answered call leaves a browser running.
C22_BrowserClosedOnEveryExit ==
  pdf.pc = "done" => pdf.browser # "running"


\* C23: in the ranking form a selected job-description file and a non-empty
\* job-description text never coexist, whatever user and auto-rank events
\* came before.
C23_FileAndTextExclusive ==
  ~(rk.jobDescriptionFile # <<>> /\ rk.jobDescriptionText # <<>>)

\* C24: in the generation form a selected base-data file and non-empty
\* additional data never coexist, so that no request to /api/generate-cvs
\* carries both a base-data file and non-empty additional data.
C24_RequestCarriesOne ==
  \A q \in net :
    q.from = "generate" => ~(q.file # <<>> /\ q.additionalData # <<>>)


\* C25: one click on 'Rank Generated CVs' causes at most one auto-rank
\* request: since the click that turned shouldAutoRank true at most one
\* auto-rank request was sent.
C25_OneAutoRankPerClick == app.sentAuto <= 1


\* C26: an accepted click on 'Rank Generated CVs' is followed by an
\* auto-rank request.  The click, the render and the effect are one step:
\* the request of an accepted click is sent in that step, or it waits for a
\* later change of an input of the effect.  So while shouldAutoRank is
\* true, an auto-rank request was sent since the click that turned it true.
C26_AcceptedClickSendsRequest == app.shouldAutoRank => app.sentAuto >= 1


\* C27: a generated CV's isRanking flag returns to false however the
\* request of rankSingleCV ends.  Nothing sets the flag false once the
\* request has ended, so: a CV isRanking only while a request of
\* rankSingleCV for its index is in flight.
C27_IsRankingOnlyInFlight ==
  \A i \in 1..Len(gn.generatedCVs) :
    gn.generatedCVs[i].isRanking =>
      \E q \in net : q.from = "rankSingleCV" /\ q.cvIndex = i


\* C28: a ranking result stored by rankSingleCV is attached to the generated
\* CV whose content was sent in the request that produced it.
C28_ResultOfOwnContent ==
  \A i \in 1..Len(gn.generatedCVs) :
    \A result \in {gn.generatedCVs[i].rankingResult[k] :
                     k \in 1..Len(gn.generatedCVs[i].rankingResult)} :
      result.of = gn.generatedCVs[i].content


\* The ranking requests of the ranking form that are in flight.
FormRequests == {q \in net : q.from \in {"handleSubmit", "handleAutoRank"}}

\* C29: in the ranking form at most one ranking request of the form is in
\* flight, isLoading is true exactly while one is, and the results shown
\* are not those of a request older than one still in flight.  Stated for
\* the states where one click has sent at most one auto-rank request.
C29_LoadingWhileInFlight ==
  app.sentAuto <= 1 =>
    /\ Cardinality(FormRequests) <= 1
    /\ rk.isLoading <=> (FormRequests # {})
    /\ rk.resultsOf # 0 => \A q \in FormRequests : q.id < rk.resultsOf


\* How often the ranking r occurs in a list.
Occurrences(list, r) == Cardinality({i \in 1..Len(list) : list[i] = r})

\* C30: the results shown are a permutation of the rankings the server
\* returned, in order of non-increasing score, and rendering leaves the
\* stored results list as the server returned it.
C30_ShownSortedStoredKept ==
  view.rendered =>
    /\ \A r \in ScoredRankings :
         Occurrences(view.shown, r) = Occurrences(view.given, r)
    /\ \A i \in 1..(Len(view.shown) - 1) :
         view.shown[i].score >= view.shown[i + 1].score
    /\ view.results = view.given

====
